---- MODULE Spec2Model ----
(***************************************************************************)
(* Round/trade economy engine of pumpit-backend: pricing engine, trade     *)
(* execution, round lifecycle, withdrawal reconciliation and deposit       *)
(* confirmation, modelled at the granularity of the handlers' await points *)
(* (every `await` of a database or chain call is a step at which other     *)
(* requests may run).                                                      *)
(*                                                                         *)
(* Amounts are exact rationals <<numerator, denominator>> in SOL; the      *)
(* JavaScript doubles and the database decimals of the source are taken    *)
(* without their rounding.                                                 *)
(***************************************************************************)
EXTENDS Integers, Sequences, FiniteSets, TLC

VARIABLES
    rounds,        \* game_round table: sequence of rows, the row's index is its id
    timeUp,        \* ids of the rounds whose duration has elapsed on the wall clock
    positions,     \* player_position table: [round id, profile id] -> row
    balance,       \* profile.deposited_balance, per profile
    trades,        \* trade table (append-only)
    treq,          \* POST /trade and /sell-all requests being served, per request slot
    started,       \* number of trade requests received so far
    isRunning,         \* round manager: module-level flag
    checkInterval,     \* round manager: the 1 s check timer is set
    countdownInterval, \* round manager: the handle points to a live countdown timer
    leakedCountdown,   \* a live countdown timer whose handle was overwritten
    countdownSeconds,  \* round manager: module-level counter
    currentRound,      \* round manager: id of the cached round (0: null)
    tick,              \* running executions of checkAndManageRounds, per slot
    cdPending,         \* createRound calls issued by countdown callbacks, not yet done
    http,              \* GET /api/game/round request being served
    force,             \* forceNewRound call being served
    history,           \* deposit_history table: deposit and withdrawal records
    wdRouter,          \* which POST /api/withdraw handler the build mounts
    wreq,              \* withdrawal requests: position and locals of each
    depRouter,         \* which POST /api/deposit/confirm handler the build mounts
    dreq,              \* deposit confirmation requests: position and locals of each
    visible,           \* signatures the chain RPC already returns a transaction for
    clients,           \* realtime hub: the Map of registered connections
    readyState,        \* realtime hub: ws.readyState of each connection
    wsreq,             \* realtime hub: the async frame handler running for each connection
    sent,              \* the last frame the server sent: its type and the connections sent to
    pinged,            \* the connection's peer has a heartbeat ping it did not answer
    chatMessages       \* chat_message table

mgrVars == <<isRunning, checkInterval, countdownInterval, leakedCountdown,
             countdownSeconds, currentRound, tick, cdPending, http, force>>
tradeVars == <<treq, started>>
wdVars == <<wdRouter, wreq>>
depVars == <<depRouter, dreq, visible>>
wsVars == <<clients, readyState, wsreq, sent, pinged, chatMessages>>
\* what the game engine's actions leave alone
payVars == <<history, wdVars, depVars, wsVars>>
\* what the payment handlers' actions leave alone
gameVars == <<rounds, timeUp, positions, trades, tradeVars, mgrVars, wsVars>>
\* what the realtime hub's actions leave alone
storeVars == <<rounds, timeUp, positions, balance, trades, tradeVars, mgrVars,
               history, wdVars, depVars>>

vars == <<rounds, timeUp, positions, balance, trades, tradeVars, mgrVars, payVars>>

----------------------------------------------------------------------------
(* Bounds of the model *)

MaxTrades == 3
MaxResells == 4
MaxInFlight == 2
MaxRounds == 2
MaxTicks == 2
MaxOvershoot == 1
MaxWithdrawals == 2
MaxDeposits == 2
MaxConns == 2
MaxChats == 1

----------------------------------------------------------------------------
(* Number arithmetic *)

RECURSIVE GCD(_, _)
GCD(a, b) == IF b = 0 THEN a ELSE GCD(b, a % b)

Abs(x) == IF x < 0 THEN -x ELSE x

Rat(n, d) ==
    LET g == GCD(Abs(n), Abs(d))
        s == IF d < 0 THEN -1 ELSE 1
    IN  <<(s * n) \div g, (s * d) \div g>>

Zero == <<0, 1>>
NULL == <<>>

RAdd(a, b) ==
    LET g == GCD(a[2], b[2])
    IN  Rat(a[1] * (b[2] \div g) + b[1] * (a[2] \div g), (a[2] \div g) * b[2])
RSub(a, b) == RAdd(a, <<-b[1], b[2]>>)
RMul(a, b) ==
    LET g == GCD(Abs(a[1]), b[2])
        h == GCD(Abs(b[1]), a[2])
    IN  <<(a[1] \div g) * (b[1] \div h), (a[2] \div h) * (b[2] \div g)>>
RDiv(a, b) == RMul(a, IF b[1] < 0 THEN <<-b[2], -b[1]>> ELSE <<b[2], b[1]>>)
RLt(a, b) ==
    LET g == GCD(a[2], b[2])
    IN  a[1] * (b[2] \div g) < b[1] * (a[2] \div g)
RLe(a, b) ==
    LET g == GCD(a[2], b[2])
    IN  a[1] * (b[2] \div g) <= b[1] * (a[2] \div g)
RMin(a, b) == IF RLe(a, b) THEN a ELSE b
RMax(a, b) == IF RLe(a, b) THEN b ELSE a

----------------------------------------------------------------------------
(* Pricing engine (lib/poolEngine, virtual-base multiplier model) *)

VIRTUAL_BASE == Rat(1, 2)
INITIAL_TOKEN_SUPPLY == 1000000
INITIAL_SOL == 0

BUY_FEE == Rat(2, 100)
SELL_FEE == Rat(2, 100)
MIN_TRADE == Rat(1, 1000)
EPSILON == Rat(1, 1000000)

\* a multiplier that ignores the pool
getMultiplier_flat(pool) == Rat(1, 1)

getMultiplier(pool) == RDiv(RAdd(VIRTUAL_BASE, pool.sol_balance), VIRTUAL_BASE)

calculateAverageEntry(multiplierBefore, multiplierAfter) ==
    RDiv(RAdd(multiplierBefore, multiplierAfter), Rat(2, 1))

\* a conversion that grants stake units for the amount before the fee
calculateBuy_gross(pool, solIn) ==
    IF RLe(solIn, Zero) THEN Zero ELSE RDiv(solIn, RSub(Rat(1, 1), BUY_FEE))

calculateBuy(pool, solIn) == IF RLe(solIn, Zero) THEN Zero ELSE solIn

calculateSell(pool, userTokens, userEntryMultiplier) ==
    IF RLe(userTokens, Zero) \/ RLe(pool.sol_balance, Zero) THEN Zero
    ELSE IF RLe(userEntryMultiplier, Zero) THEN Zero
    ELSE LET currentMultiplier == getMultiplier(pool)
             pnlRatio == RDiv(currentMultiplier, userEntryMultiplier)
             solOut == RMin(RMul(userTokens, pnlRatio), pool.sol_balance)
         IN  RMax(Zero, solOut)

applyBuy(pool, solIn) ==
    [sol_balance |-> RAdd(pool.sol_balance, solIn), token_supply |-> pool.token_supply]

applySell(pool, solOut) ==
    [sol_balance |-> RMax(Zero, RSub(pool.sol_balance, solOut)),
     token_supply |-> pool.token_supply]

getPrice(pool) == getMultiplier(pool)
getPriceMultiplier(pool) == getMultiplier(pool)

getInitialPool ==
    [sol_balance |-> Rat(INITIAL_SOL, 1), token_supply |-> INITIAL_TOKEN_SUPPLY]

----------------------------------------------------------------------------
(* Persistent store: rounds, positions, ledger, trades *)

Profiles == {"p1", "p2"}
InitialBalance == Rat(1, 1)
TradeAmounts == {Rat(1, 2), Rat(1, 1)}

RoundIds == 1..MaxRounds
TradeIds == 1..MaxInFlight

NoPosition ==
    [exists |-> FALSE, token_balance |-> Zero, total_sol_in |-> Zero,
     total_sol_out |-> Zero, entry_price |-> NULL]

PoolOf(round) ==
    [sol_balance |-> round.pool_sol_balance, token_supply |-> round.pool_token_supply]

ActiveRounds == {r \in 1..Len(rounds) : rounds[r].status = "active"}

isRoundExpired(r) == r \in timeUp

\* a row that starts with a funded pool
NewRound_funded ==
    [status |-> "active", pool_sol_balance |-> Rat(1, 2),
     pool_token_supply |-> INITIAL_TOKEN_SUPPLY, current_price |-> Rat(2, 1), ended_at |-> 0]

\* roundService.createRound: the inserted row
NewRound ==
    [status |-> "active",
     pool_sol_balance |-> getInitialPool.sol_balance,
     pool_token_supply |-> getInitialPool.token_supply,
     current_price |-> getPrice(getInitialPool),
     ended_at |-> 0]

createRound == rounds' = Append(rounds, NewRound)

\* ended_at: new Date() of the update; 0 is null and every write of the
\* column stamps a later value than the one it replaces
\* roundService.endRound: the row after the update (none for a completed round)
endRound(r) ==
    IF rounds[r].status = "completed" THEN rounds' = rounds
    ELSE rounds' = [rounds EXCEPT ![r].status = "completed", ![r].ended_at = @ + 1]

----------------------------------------------------------------------------
(* Trade execution service: one request per id, a step per await *)

IdleTrade ==
    [pc |-> "idle", kind |-> "none", profile |-> "none", round |-> 0,
     amount |-> Zero, pool |-> getInitialPool, position |-> NoPosition,
     result |-> "none"]

\* the response is sent: the slot is free again and keeps the last response
Finish(t, outcome) == treq' = [treq EXCEPT ![t] = [IdleTrade EXCEPT !.result = outcome]]

\* POST /api/game/trade and /sell-all up to the call of the trade service
TradeRequest(t, kind, p, amt) ==
    /\ treq[t].pc = "idle"
    /\ \A u \in TradeIds : u < t => treq[u].pc # "idle"
    /\ started' = started + 1
    /\ IF kind # "sellall" /\ RLt(amt, MIN_TRADE) THEN Finish(t, "Minimum trade")
       ELSE IF ActiveRounds = {} THEN Finish(t, "No active round")
       ELSE \E r \in ActiveRounds :
              IF isRoundExpired(r) THEN Finish(t, "Round has ended")
              ELSE treq' = [treq EXCEPT ![t] =
                              [IdleTrade EXCEPT !.kind = kind, !.profile = p, !.amount = amt,
                                                !.round = r,
                                                !.pc = CASE kind = "buy" -> "buy_profile"
                                                         [] kind = "sell" -> "sell_round"
                                                         [] OTHER -> "sellall_position"]]
    /\ UNCHANGED <<rounds, timeUp, positions, balance, trades, mgrVars, payVars>>

\* executeBuy: profile lookup and balance check
BuyReadProfile(t) ==
    /\ treq[t].pc = "buy_profile"
    /\ IF RLt(balance[treq[t].profile], treq[t].amount)
       THEN Finish(t, "Insufficient balance")
       ELSE treq' = [treq EXCEPT ![t].pc = "buy_round"]
    /\ UNCHANGED <<rounds, timeUp, positions, balance, trades, started, mgrVars, payVars>>

buyFee(solAmount) == RMul(solAmount, BUY_FEE)
buySolAfterFee(solAmount) == RSub(solAmount, buyFee(solAmount))

\* executeBuy: round lookup, status and expiry checks, pool snapshot
BuyReadRound(t) ==
    /\ treq[t].pc = "buy_round"
    /\ LET r == treq[t].round
           pool == PoolOf(rounds[r])
       IN  IF rounds[r].status # "active" THEN Finish(t, "Round is not active")
           ELSE IF isRoundExpired(r) THEN Finish(t, "Round has ended")
           ELSE IF RLe(calculateBuy(pool, buySolAfterFee(treq[t].amount)), Zero)
           THEN Finish(t, "Trade too small")
           ELSE treq' = [treq EXCEPT ![t].pc = "buy_position", ![t].pool = pool]
    /\ UNCHANGED <<rounds, timeUp, positions, balance, trades, started, mgrVars, payVars>>

\* executeBuy: lookup of the existing position
BuyReadPosition(t) ==
    /\ treq[t].pc = "buy_position"
    /\ treq' = [treq EXCEPT ![t].pc = "buy_commit",
                            ![t].position = positions[treq[t].round, treq[t].profile]]
    /\ UNCHANGED <<rounds, timeUp, positions, balance, trades, started, mgrVars, payVars>>

\* executeBuy: the weighted average entry, from the snapshots
newEntryPrice(pool, existingPosition, solAmount) ==
    LET solAfterFee == buySolAfterFee(solAmount)
        multiplierBefore == getMultiplier(pool)
        tokensOut == calculateBuy(pool, solAfterFee)
        multiplierAfter == getMultiplier(applyBuy(pool, solAfterFee))
        tradeEntryMultiplier == calculateAverageEntry(multiplierBefore, multiplierAfter)
    IN  IF existingPosition.exists /\ RLt(Zero, existingPosition.token_balance)
           /\ existingPosition.entry_price # NULL
        THEN LET oldTokens == existingPosition.token_balance
                 oldEntry == existingPosition.entry_price
                 totalTokens == RAdd(oldTokens, tokensOut)
             IN  RDiv(RAdd(RMul(oldTokens, oldEntry), RMul(tokensOut, tradeEntryMultiplier)),
                      totalTokens)
        ELSE tradeEntryMultiplier

\* executeBuy: the transaction (round update, position upsert, ledger debit, trade row)
BuyCommit(t) ==
    /\ treq[t].pc = "buy_commit"
    /\ LET r == treq[t].round
           p == treq[t].profile
           solAmount == treq[t].amount
           solAfterFee == buySolAfterFee(solAmount)
           tokensOut == calculateBuy(treq[t].pool, solAfterFee)
           newPool == applyBuy(treq[t].pool, solAfterFee)
           newPrice == getMultiplier(newPool)
           entry == newEntryPrice(treq[t].pool, treq[t].position, solAmount)
           old == positions[r, p]
       IN  /\ rounds' = [rounds EXCEPT ![r].pool_sol_balance = newPool.sol_balance,
                                       ![r].pool_token_supply = newPool.token_supply,
                                       ![r].current_price = newPrice]
           /\ positions' = [positions EXCEPT ![r, p] =
                  IF old.exists
                  THEN [old EXCEPT !.token_balance = RAdd(@, tokensOut),
                                   !.total_sol_in = RAdd(@, solAmount),
                                   !.entry_price = entry]
                  ELSE [exists |-> TRUE, token_balance |-> tokensOut,
                        total_sol_in |-> solAmount, total_sol_out |-> Zero,
                        entry_price |-> entry]]
           /\ balance' = [balance EXCEPT ![p] = RSub(@, solAmount)]
           /\ trades' = Append(trades,
                  [round_id |-> r, profile_id |-> p, trade_type |-> "buy",
                   sol_amount |-> solAmount, token_amount |-> tokensOut,
                   price_at_trade |-> newPrice, fee_amount |-> buyFee(solAmount)])
    /\ Finish(t, "ok")
    /\ UNCHANGED <<timeUp, started, mgrVars, payVars>>

\* executeSellAll: position lookup, then executeSell with the whole balance
SellAllReadPosition(t) ==
    /\ treq[t].pc = "sellall_position"
    /\ LET pos == positions[treq[t].round, treq[t].profile]
       IN  IF ~pos.exists THEN Finish(t, "No position in this round")
           ELSE IF RLe(pos.token_balance, Zero) THEN Finish(t, "No tokens to sell")
           ELSE IF RLt(pos.token_balance, MIN_TRADE) THEN Finish(t, "Minimum trade")
           ELSE treq' = [treq EXCEPT ![t].pc = "sell_round", ![t].amount = pos.token_balance]
    /\ UNCHANGED <<rounds, timeUp, positions, balance, trades, started, mgrVars, payVars>>

\* executeSell: round lookup, status and expiry checks, pool snapshot
SellReadRound(t) ==
    /\ treq[t].pc = "sell_round"
    /\ LET r == treq[t].round
       IN  IF rounds[r].status # "active" THEN Finish(t, "Round is not active")
           ELSE IF isRoundExpired(r) THEN Finish(t, "Round has ended")
           ELSE treq' = [treq EXCEPT ![t].pc = "sell_position", ![t].pool = PoolOf(rounds[r])]
    /\ UNCHANGED <<rounds, timeUp, positions, balance, trades, started, mgrVars, payVars>>

\* executeSell: Number(position.entry_price) || 1
sellEntryMultiplier(position) ==
    IF position.entry_price = NULL \/ position.entry_price = Zero
    THEN Rat(1, 1) ELSE position.entry_price

\* executeSell: tokensToSell capped at the balance read
sellTokens(position, tokensToSell) ==
    IF RLt(position.token_balance, tokensToSell) THEN position.token_balance ELSE tokensToSell

\* executeSell: solOutBeforeFee
sellGross(pool, position, tokensToSell) ==
    calculateSell(pool, sellTokens(position, tokensToSell), sellEntryMultiplier(position))

sellFee(solOutBeforeFee) == RMul(solOutBeforeFee, SELL_FEE)

\* executeSell: position lookup and payout computation
SellReadPosition(t) ==
    /\ treq[t].pc = "sell_position"
    /\ LET pos == positions[treq[t].round, treq[t].profile]
       IN  IF ~pos.exists THEN Finish(t, "No position in this round")
           ELSE IF RLe(pos.token_balance, Zero) THEN Finish(t, "No tokens to sell")
           ELSE IF RLe(sellGross(treq[t].pool, pos, treq[t].amount), Zero)
           THEN Finish(t, "Trade too small or insufficient pool liquidity")
           ELSE treq' = [treq EXCEPT ![t].pc = "sell_commit", ![t].position = pos]
    /\ UNCHANGED <<rounds, timeUp, positions, balance, trades, started, mgrVars, payVars>>

\* executeSell: the transaction (round update, position update, ledger credit, trade row)
SellCommit(t) ==
    /\ treq[t].pc = "sell_commit"
    /\ LET r == treq[t].round
           p == treq[t].profile
           tokensToSell == sellTokens(treq[t].position, treq[t].amount)
           solOutBeforeFee == sellGross(treq[t].pool, treq[t].position, treq[t].amount)
           feeAmount == sellFee(solOutBeforeFee)
           solAfterFee == RSub(solOutBeforeFee, feeAmount)
           newPool == applySell(treq[t].pool, solOutBeforeFee)
           newPrice == getPrice(newPool)
           remainingTokens == RSub(treq[t].position.token_balance, tokensToSell)
           shouldClearEntryPrice == RLe(remainingTokens, EPSILON)
       IN  /\ rounds' = [rounds EXCEPT ![r].pool_sol_balance = newPool.sol_balance,
                                       ![r].pool_token_supply = newPool.token_supply,
                                       ![r].current_price = newPrice]
           /\ positions' = [positions EXCEPT
                  ![r, p].token_balance = RSub(@, tokensToSell),
                  ![r, p].total_sol_out = RAdd(@, solAfterFee),
                  ![r, p].entry_price = IF shouldClearEntryPrice THEN NULL ELSE @]
           /\ balance' = [balance EXCEPT ![p] = RAdd(@, solAfterFee)]
           /\ trades' = Append(trades,
                  [round_id |-> r, profile_id |-> p, trade_type |-> "sell",
                   sol_amount |-> solOutBeforeFee, token_amount |-> tokensToSell,
                   price_at_trade |-> newPrice, fee_amount |-> feeAmount])
    /\ Finish(t, "ok")
    /\ UNCHANGED <<timeUp, started, mgrVars, payVars>>

----------------------------------------------------------------------------
(* Round lifecycle as the trade service sees it: the store effects of the  *)
(* round manager's createRound and endRound calls, and the wall clock      *)

\* checkAndManageRounds, no-active-round branch: createRound
RoundOpens ==
    /\ ActiveRounds = {}
    /\ Len(rounds) < MaxRounds
    /\ createRound
    /\ UNCHANGED <<timeUp, positions, balance, trades, tradeVars, mgrVars, payVars>>

\* checkAndManageRounds, expired branch: handleRoundEnd -> endRound
RoundSettles(r) ==
    /\ r \in ActiveRounds
    /\ isRoundExpired(r)
    /\ endRound(r)
    /\ UNCHANGED <<timeUp, positions, balance, trades, tradeVars, mgrVars, payVars>>

\* the round's duration_seconds elapse
TimePasses(r) ==
    /\ r \in ActiveRounds
    /\ r \notin timeUp
    /\ timeUp' = timeUp \cup {r}
    /\ UNCHANGED <<rounds, positions, balance, trades, tradeVars, mgrVars, payVars>>

----------------------------------------------------------------------------
(* Round manager (services/roundManager): timers, tick, settlement,        *)
(* countdown, forceNewRound, and the GET /api/game/round handler           *)

COUNTDOWN_DURATION == 20

TickIds == 1..MaxTicks

IdleTick == [pc |-> "idle", round |-> 0, forfeitures |-> {}]

IdleForce == [pc |-> "idle", round |-> 0]

mgrTimers == <<isRunning, checkInterval, countdownInterval, leakedCountdown>>

\* checkAndManageRounds up to its first await, run in slot i
checkAndManageRounds(i) ==
    IF countdownSeconds > 0 THEN tick' = tick
    ELSE tick' = [tick EXCEPT ![i].pc = "get"]

\* startRoundManager: sets the check timer and runs the initial check
startRoundManager ==
    /\ ~isRunning
    /\ isRunning' = TRUE
    /\ checkInterval' = TRUE
    /\ \E i \in TickIds :
         /\ tick[i].pc = "idle"
         /\ \A j \in TickIds : j < i => tick[j].pc # "idle"
         /\ checkAndManageRounds(i)
    /\ UNCHANGED <<countdownInterval, leakedCountdown, countdownSeconds, currentRound,
                   cdPending, http, force>>
    /\ UNCHANGED <<rounds, timeUp, positions, balance, trades, tradeVars, payVars>>

\* stopRoundManager: clears both timers
stopRoundManager ==
    /\ checkInterval' = FALSE
    /\ countdownInterval' = FALSE
    /\ isRunning' = FALSE
    /\ UNCHANGED <<leakedCountdown, countdownSeconds, currentRound, tick, cdPending,
                   http, force>>
    /\ UNCHANGED <<rounds, timeUp, positions, balance, trades, tradeVars, payVars>>

\* the check timer fires: checkAndManageRounds up to its first await
TickFires(i) ==
    /\ checkInterval
    /\ tick[i].pc = "idle"
    /\ \A j \in TickIds : j < i => tick[j].pc # "idle"
    /\ checkAndManageRounds(i)
    /\ UNCHANGED <<mgrTimers, countdownSeconds, currentRound, cdPending, http, force>>
    /\ UNCHANGED <<rounds, timeUp, positions, balance, trades, tradeVars, payVars>>

\* a startCountdown that sets the counter and schedules nothing
startCountdown_noTimer ==
    /\ countdownSeconds' = COUNTDOWN_DURATION
    /\ UNCHANGED <<countdownInterval, leakedCountdown>>

\* startCountdown: the counter is set and a new interval replaces the handle
startCountdown ==
    /\ countdownSeconds' = COUNTDOWN_DURATION
    /\ countdownInterval' = TRUE
    /\ leakedCountdown' = (leakedCountdown \/ countdownInterval)

\* checkAndManageRounds after getActiveRound: no round, a running round, an expired round
TickGetActive(i) ==
    /\ tick[i].pc = "get"
    /\ IF ActiveRounds = {}
       THEN /\ tick' = [tick EXCEPT ![i].pc = "create"]
            /\ UNCHANGED currentRound
       ELSE \E r \in ActiveRounds :
              /\ currentRound' = r
              /\ IF isRoundExpired(r)
                 THEN tick' = [tick EXCEPT ![i] = [IdleTick EXCEPT !.pc = "end", !.round = r]]
                 ELSE tick' = [tick EXCEPT ![i] = IdleTick]
    /\ UNCHANGED <<mgrTimers, countdownSeconds, cdPending, http, force>>
    /\ UNCHANGED <<rounds, timeUp, positions, balance, trades, tradeVars, payVars>>

\* checkAndManageRounds, no-active-round branch, after createRound
TickCreate(i) ==
    /\ tick[i].pc = "create"
    /\ Len(rounds) < MaxRounds
    /\ createRound
    /\ currentRound' = Len(rounds) + 1
    /\ tick' = [tick EXCEPT ![i] = IdleTick]
    /\ UNCHANGED <<mgrTimers, countdownSeconds, cdPending, http, force>>
    /\ UNCHANGED <<timeUp, positions, balance, trades, tradeVars, payVars>>

\* endRound's forfeitures: the holders in the round as read
forfeituresOf(r) ==
    {[profileId |-> p,
      tokenBalance |-> positions[<<r, p>>].token_balance,
      solValue |-> RMul(positions[<<r, p>>].token_balance, rounds[r].current_price)] :
        p \in {q \in Profiles : positions[<<r, q>>].exists
                                 /\ RLt(Zero, positions[<<r, q>>].token_balance)}}

\* an endRound that goes on to the update whatever the status it read
TickEndRead_noGuard(i) ==
    /\ tick[i].pc = "end"
    /\ tick' = [tick EXCEPT ![i].pc = "end_update",
                            ![i].forfeitures = forfeituresOf(tick[i].round)]
    /\ UNCHANGED <<mgrTimers, countdownSeconds>>
    /\ UNCHANGED <<currentRound, cdPending, http, force>>
    /\ UNCHANGED <<rounds, timeUp, positions, balance, trades, tradeVars, payVars>>

\* handleRoundEnd: endRound's lookup of the round
TickEndRead(i) ==
    /\ tick[i].pc = "end"
    /\ IF rounds[tick[i].round].status = "completed"
       THEN /\ tick' = [tick EXCEPT ![i] = IdleTick]
            /\ startCountdown
            /\ UNCHANGED <<isRunning, checkInterval>>
       ELSE /\ tick' = [tick EXCEPT ![i].pc = "end_update",
                                     ![i].forfeitures = forfeituresOf(tick[i].round)]
            /\ UNCHANGED <<mgrTimers, countdownSeconds>>
    /\ UNCHANGED <<currentRound, cdPending, http, force>>
    /\ UNCHANGED <<rounds, timeUp, positions, balance, trades, tradeVars, payVars>>

\* handleRoundEnd: endRound's update, the ROUND_ENDED broadcast, and with no
\* forfeiture to notify, startCountdown
TickEndUpdate(i) ==
    /\ tick[i].pc = "end_update"
    /\ rounds' = [rounds EXCEPT ![tick[i].round].status = "completed",
                                ![tick[i].round].ended_at = @ + 1]
    /\ IF tick[i].forfeitures = {}
       THEN /\ startCountdown
            /\ tick' = [tick EXCEPT ![i] = IdleTick]
       ELSE /\ tick' = [tick EXCEPT ![i].pc = "notify"]
            /\ UNCHANGED <<countdownInterval, leakedCountdown, countdownSeconds>>
    /\ UNCHANGED <<isRunning, checkInterval, currentRound, cdPending, http, force>>
    /\ UNCHANGED <<timeUp, positions, balance, trades, tradeVars, payVars>>

\* handleRoundEnd: one forfeiture's profile lookup and notification; after the
\* last one, startCountdown
TickNotify(i) ==
    /\ tick[i].pc = "notify"
    /\ \E p \in tick[i].forfeitures :
         IF tick[i].forfeitures = {p}
         THEN /\ startCountdown
              /\ tick' = [tick EXCEPT ![i] = IdleTick]
         ELSE /\ tick' = [tick EXCEPT ![i].forfeitures = @ \ {p}]
              /\ UNCHANGED <<countdownInterval, leakedCountdown, countdownSeconds>>
    /\ UNCHANGED <<isRunning, checkInterval, currentRound, cdPending, http, force>>
    /\ UNCHANGED <<rounds, timeUp, positions, balance, trades, tradeVars, payVars>>

\* a countdown timer fires: decrement, COUNTDOWN broadcast, at zero clear the
\* handle and call createRound
CountdownFires ==
    /\ countdownInterval \/ leakedCountdown
    /\ countdownSeconds > -MaxOvershoot
    /\ countdownSeconds' = countdownSeconds - 1
    /\ IF countdownSeconds - 1 <= 0
       THEN /\ countdownInterval' = FALSE
            /\ cdPending' = cdPending + 1
       ELSE UNCHANGED <<countdownInterval, cdPending>>
    /\ UNCHANGED <<isRunning, checkInterval, leakedCountdown, currentRound, tick, http, force>>
    /\ UNCHANGED <<rounds, timeUp, positions, balance, trades, tradeVars, payVars>>

\* the countdown callback after createRound
CountdownCreate ==
    /\ cdPending > 0
    /\ Len(rounds) < MaxRounds
    /\ createRound
    /\ currentRound' = Len(rounds) + 1
    /\ cdPending' = cdPending - 1
    /\ UNCHANGED <<mgrTimers, countdownSeconds, tick, http, force>>
    /\ UNCHANGED <<timeUp, positions, balance, trades, tradeVars, payVars>>

\* the countdown callback's createRound throws: the error is logged
CountdownCreateFails ==
    /\ cdPending > 0
    /\ cdPending' = cdPending - 1
    /\ UNCHANGED <<mgrTimers, countdownSeconds, currentRound, tick, http, force>>
    /\ UNCHANGED <<rounds, timeUp, positions, balance, trades, tradeVars, payVars>>

\* GET /api/game/round up to its first await
HttpRound ==
    /\ http = "idle"
    /\ IF countdownSeconds > 0 THEN http' = "idle" ELSE http' = "get"
    /\ UNCHANGED <<mgrTimers, countdownSeconds, currentRound, tick, cdPending, force>>
    /\ UNCHANGED <<rounds, timeUp, positions, balance, trades, tradeVars, payVars>>

\* GET /api/game/round after getActiveRound
HttpGetActive ==
    /\ http = "get"
    /\ http' = IF ActiveRounds = {} THEN "create" ELSE "idle"
    /\ UNCHANGED <<mgrTimers, countdownSeconds, currentRound, tick, cdPending, force>>
    /\ UNCHANGED <<rounds, timeUp, positions, balance, trades, tradeVars, payVars>>

\* GET /api/game/round after createRound
HttpCreate ==
    /\ http = "create"
    /\ Len(rounds) < MaxRounds
    /\ createRound
    /\ http' = "idle"
    /\ UNCHANGED <<mgrTimers, countdownSeconds, currentRound, tick, cdPending, force>>
    /\ UNCHANGED <<timeUp, positions, balance, trades, tradeVars, payVars>>

\* forceNewRound: clears the countdown and calls createRound
forceClearCountdown ==
    /\ countdownInterval' = FALSE
    /\ countdownSeconds' = 0
    /\ force' = [IdleForce EXCEPT !.pc = "create"]

\* forceNewRound up to its first await (the cached round always has status active)
ForceNewRound ==
    /\ force.pc = "idle"
    /\ IF currentRound # 0
       THEN /\ force' = [pc |-> "end", round |-> currentRound]
            /\ UNCHANGED <<countdownInterval, countdownSeconds>>
       ELSE forceClearCountdown
    /\ UNCHANGED <<isRunning, checkInterval, leakedCountdown, currentRound, tick, cdPending, http>>
    /\ UNCHANGED <<rounds, timeUp, positions, balance, trades, tradeVars, payVars>>

\* forceNewRound after endRound (lookup and update of the cached round)
ForceEnd ==
    /\ force.pc = "end"
    /\ endRound(force.round)
    /\ forceClearCountdown
    /\ UNCHANGED <<isRunning, checkInterval, leakedCountdown, currentRound, tick, cdPending, http>>
    /\ UNCHANGED <<timeUp, positions, balance, trades, tradeVars, payVars>>

\* forceNewRound after createRound
ForceCreate ==
    /\ force.pc = "create"
    /\ Len(rounds) < MaxRounds
    /\ createRound
    /\ currentRound' = Len(rounds) + 1
    /\ force' = IdleForce
    /\ UNCHANGED <<mgrTimers, countdownSeconds, tick, cdPending, http>>
    /\ UNCHANGED <<timeUp, positions, balance, trades, tradeVars, payVars>>

----------------------------------------------------------------------------
(* Withdrawals: POST /api/withdraw, the locked debit-first handler and the *)
(* legacy transfer-first handler; a step per await                         *)

MIN_WITHDRAWAL == Rat(1, 1000)

WdIds == 1..MaxWithdrawals
WithdrawAmounts == {Zero, Rat(1, 2000), Rat(1, 2), Rat(1, 1), Rat(2, 1)}
WdRouters == {"locked", "legacy"}

IdleWd ==
    [pc |-> "idle", profile |-> "none", amount |-> Zero, rec |-> 0,
     held |-> Zero, transfer |-> "none", critical |-> FALSE, response |-> "none"]

\* res.json(...): the request ends with this response
Respond(w, msg) == wreq' = [wreq EXCEPT ![w].pc = "done", ![w].response = msg]

\* a sufficiency check that only looks for a positive balance
insufficientBalance_positiveOnly(currentBalance, amount) == RLe(currentBalance, Zero)

insufficientBalance(currentBalance, amount) == RLt(currentBalance, amount)

pendingWithdrawal(p, amt) ==
    [profile_id |-> p, tx_type |-> "withdrawal", amount |-> amt,
     tx_signature |-> "pending", status |-> "pending"]

\* POST /api/withdraw up to the first await: validation of the amount
WithdrawRequest(w, router, p, amt) ==
    /\ wreq[w].pc = "idle"
    /\ \A u \in WdIds : u < w => wreq[u].pc # "idle"
    /\ wdRouter \in {"none", router}
    /\ wdRouter' = router
    /\ LET req == [IdleWd EXCEPT !.profile = p, !.amount = amt]
       IN  IF RLe(amt, Zero)
           THEN wreq' = [wreq EXCEPT ![w] = [req EXCEPT !.pc = "done",
                                  !.response = "Amount must be greater than 0"]]
           ELSE IF router = "locked" /\ RLt(amt, MIN_WITHDRAWAL)
           THEN wreq' = [wreq EXCEPT ![w] = [req EXCEPT !.pc = "done",
                                  !.response = "Minimum withdrawal"]]
           ELSE wreq' = [wreq EXCEPT ![w] = [req EXCEPT !.pc =
                                  IF router = "locked" THEN "tx" ELSE "profile"]]
    /\ UNCHANGED <<balance, history, depVars, gameVars>>

\* locked handler: the transaction under SELECT ... FOR UPDATE: sufficiency
\* check, debit, pending record
WithdrawTx(w) ==
    /\ wreq[w].pc = "tx"
    /\ LET p == wreq[w].profile
           amt == wreq[w].amount
       IN  IF insufficientBalance(balance[p], amt)
           THEN /\ Respond(w, "Insufficient balance")
                /\ UNCHANGED <<balance, history>>
           ELSE /\ balance' = [balance EXCEPT ![p] = RSub(@, amt)]
                /\ history' = Append(history, pendingWithdrawal(p, amt))
                /\ wreq' = [wreq EXCEPT ![w].pc = "transfer", ![w].held = amt,
                                        ![w].rec = Len(history) + 1]
    /\ UNCHANGED <<wdRouter, depVars, gameVars>>

\* legacy handler: profile lookup and sufficiency check
WithdrawReadProfile(w) ==
    /\ wreq[w].pc = "profile"
    /\ IF insufficientBalance(balance[wreq[w].profile], wreq[w].amount)
       THEN Respond(w, "Insufficient balance")
       ELSE wreq' = [wreq EXCEPT ![w].pc = "record"]
    /\ UNCHANGED <<balance, history, wdRouter, depVars, gameVars>>

\* legacy handler: the pending record is created
WithdrawCreateRecord(w) ==
    /\ wreq[w].pc = "record"
    /\ history' = Append(history, pendingWithdrawal(wreq[w].profile, wreq[w].amount))
    /\ wreq' = [wreq EXCEPT ![w].pc = "transfer", ![w].rec = Len(history) + 1]
    /\ UNCHANGED <<balance, wdRouter, depVars, gameVars>>

\* transferFromEscrow returns a signature or throws
WithdrawTransfer(w) ==
    /\ wreq[w].pc = "transfer"
    /\ \E ok \in BOOLEAN :
         wreq' = [wreq EXCEPT
                    ![w].transfer = IF ok THEN "sent" ELSE "failed",
                    ![w].pc = IF ~ok THEN (IF wdRouter = "locked" THEN "refund" ELSE "mark_failed")
                              ELSE IF wdRouter = "locked" THEN "confirm" ELSE "debit"]
    /\ UNCHANGED <<balance, history, wdRouter, depVars, gameVars>>

\* legacy handler: the debit after the transfer; a failed write goes to the catch
WithdrawDebit(w) ==
    /\ wreq[w].pc = "debit"
    /\ \E ok \in BOOLEAN :
         IF ok
         THEN /\ balance' = [balance EXCEPT ![wreq[w].profile] = RSub(@, wreq[w].amount)]
              /\ wreq' = [wreq EXCEPT ![w].pc = "confirm", ![w].held = wreq[w].amount]
         ELSE /\ wreq' = [wreq EXCEPT ![w].pc = "mark_failed"]
              /\ UNCHANGED balance
    /\ UNCHANGED <<history, wdRouter, depVars, gameVars>>

\* the record is updated to confirmed with the signature; a failed write goes
\* to the catch
WithdrawConfirm(w) ==
    /\ wreq[w].pc = "confirm"
    /\ \E ok \in BOOLEAN :
         IF ok
         THEN /\ history' = [history EXCEPT ![wreq[w].rec].status = "confirmed",
                                            ![wreq[w].rec].tx_signature = "withdrawal_sig"]
              /\ Respond(w, "success")
         ELSE /\ wreq' = [wreq EXCEPT ![w].pc =
                            IF wdRouter = "locked" THEN "refund" ELSE "mark_failed"]
              /\ UNCHANGED history
    /\ UNCHANGED <<balance, wdRouter, depVars, gameVars>>

\* a catch block that marks the record failed without the compensating credit
WithdrawRefund_noCredit(w) ==
    /\ wreq[w].pc = "refund"
    /\ wreq' = [wreq EXCEPT ![w].pc = "mark_failed"]
    /\ UNCHANGED <<balance, history, wdRouter, depVars, gameVars>>

\* a catch block whose failed compensating credit ends the request unlogged
WithdrawRefund_silent(w) ==
    /\ wreq[w].pc = "refund"
    /\ \E ok \in BOOLEAN :
         IF ok
         THEN /\ balance' = [balance EXCEPT ![wreq[w].profile] = RAdd(@, wreq[w].amount)]
              /\ wreq' = [wreq EXCEPT ![w].pc = "mark_failed", ![w].held = Zero]
         ELSE /\ wreq' = [wreq EXCEPT ![w].pc = "done",
                                      ![w].response = "Transaction failed. Your balance has been refunded."]
              /\ UNCHANGED balance
    /\ UNCHANGED <<history, wdRouter, depVars, gameVars>>

\* locked handler, catch: the compensating credit; a failed write is logged
\* as critical and the response is sent
WithdrawRefund(w) ==
    /\ wreq[w].pc = "refund"
    /\ \E ok \in BOOLEAN :
         IF ok
         THEN /\ balance' = [balance EXCEPT ![wreq[w].profile] = RAdd(@, wreq[w].amount)]
              /\ wreq' = [wreq EXCEPT ![w].pc = "mark_failed", ![w].held = Zero]
         ELSE /\ wreq' = [wreq EXCEPT ![w].pc = "done", ![w].critical = TRUE,
                                      ![w].response = "Transaction failed. Your balance has been refunded."]
              /\ UNCHANGED balance
    /\ UNCHANGED <<history, wdRouter, depVars, gameVars>>

\* catch: the record is marked failed and the response is sent
WithdrawMarkFailed(w) ==
    /\ wreq[w].pc = "mark_failed"
    /\ \E ok \in BOOLEAN :
         IF ok
         THEN /\ history' = [history EXCEPT ![wreq[w].rec].status = "failed"]
              /\ Respond(w, IF wdRouter = "locked"
                            THEN "Transaction failed. Your balance has been refunded."
                            ELSE "Transaction failed. Please try again.")
         ELSE /\ UNCHANGED history
              /\ IF wdRouter = "locked"
                 THEN wreq' = [wreq EXCEPT ![w].pc = "done", ![w].critical = TRUE,
                                  ![w].response = "Transaction failed. Your balance has been refunded."]
                 ELSE Respond(w, "Internal server error")
    /\ UNCHANGED <<balance, wdRouter, depVars, gameVars>>

----------------------------------------------------------------------------
(* Deposits: POST /api/deposit/confirm, the single-lookup handler and the  *)
(* retrying handler; a step per await                                      *)

DepIds == 1..MaxDeposits
DepRouters == {"single", "retry"}
Signatures == {"sigA", "sigErr", "sigElse"}
DepositAmounts == {Rat(1, 2), Rat(1, 1)}

\* the transactions on chain: sigA pays 1/2 SOL from p1 to the escrow wallet,
\* sigErr failed on chain, sigElse pays another wallet
ChainTx ==
    [sig \in Signatures |->
        [err |-> (sig = "sigErr"), sender |-> "p1", toEscrow |-> (sig # "sigElse"),
         escrowReceived |-> IF sig = "sigElse" THEN Zero ELSE Rat(1, 2)]]

maxRetries == 10
tolerance == Rat(1, 1000)

NoResponse == [success |-> FALSE, message |-> "none", new_balance |-> NULL]

IdleDep ==
    [pc |-> "idle", wallet |-> "none", sig |-> "none", amount |-> Zero,
     balanceRead |-> NULL, existing |-> "none", attempt |-> 0, credited |-> FALSE,
     response |-> NoResponse]

\* res.json(...): the request ends with this response
DepRespond(d, ok, msg, bal) ==
    dreq' = [dreq EXCEPT ![d].pc = "done", ![d].attempt = 0, ![d].balanceRead = NULL,
                         ![d].response = [success |-> ok, message |-> msg, new_balance |-> bal]]

depositRecord(p, amt, sig, st) ==
    [profile_id |-> p, tx_type |-> "deposit", amount |-> amt, tx_signature |-> sig,
     status |-> st]

\* depositHistory.findFirst({ where: { tx_signature } }): the matching records
recordsOf(sig) == {i \in 1..Len(history) : history[i].tx_signature = sig}

\* POST /api/deposit/confirm up to the first await
DepositRequest(d, router, p, sig, amt) ==
    /\ dreq[d].pc = "idle"
    /\ \A e \in DepIds : e < d => dreq[e].pc # "idle"
    /\ depRouter \in {"none", router}
    /\ depRouter' = router
    /\ dreq' = [dreq EXCEPT ![d] = [IdleDep EXCEPT !.pc = "profile", !.wallet = p,
                                                   !.sig = sig, !.amount = amt]]
    /\ UNCHANGED <<balance, history, visible, wdVars, gameVars>>

\* the profile is read (get-or-create, upsert): its balance is what an
\* already-processed response reports
DepositReadProfile(d) ==
    /\ dreq[d].pc = "profile"
    /\ dreq' = [dreq EXCEPT ![d].pc = "existing", ![d].balanceRead = balance[dreq[d].wallet]]
    /\ UNCHANGED <<balance, history, depRouter, visible, wdVars, gameVars>>

\* a handler that looks the transaction up whatever records exist
DepositCheckExisting_unchecked(d) ==
    /\ dreq[d].pc = "existing"
    /\ dreq' = [dreq EXCEPT ![d].pc = "lookup"]
    /\ UNCHANGED <<balance, history, depRouter, visible, wdVars, gameVars>>

\* the existingDeposit check
DepositCheckExisting(d) ==
    /\ dreq[d].pc = "existing"
    /\ IF recordsOf(dreq[d].sig) = {}
       THEN dreq' = [dreq EXCEPT ![d].pc = "lookup"]
       ELSE \E i \in recordsOf(dreq[d].sig) :
              IF depRouter = "retry" /\ history[i].status = "pending"
              THEN dreq' = [dreq EXCEPT ![d].pc = "refetch", ![d].existing = "pending"]
              ELSE dreq' = [dreq EXCEPT ![d].pc = "done", ![d].attempt = 0,
                               ![d].balanceRead = NULL,
                               ![d].existing = history[i].status,
                               ![d].response = [success |-> (depRouter = "retry"),
                                                message |-> "Transaction already processed",
                                                new_balance |-> dreq[d].balanceRead]]
    /\ UNCHANGED <<balance, history, depRouter, visible, wdVars, gameVars>>

\* retrying handler, pending record found: the balance is read again
DepositRefetch(d) ==
    /\ dreq[d].pc = "refetch"
    /\ DepRespond(d, TRUE, "Deposit is being processed", balance[dreq[d].wallet])
    /\ UNCHANGED <<balance, history, depRouter, visible, wdVars, gameVars>>

\* the checks on a transaction the chain returned, up to the next await
verifyTransaction(d) ==
    LET tx == ChainTx[dreq[d].sig]
        diff == RSub(tx.escrowReceived, dreq[d].amount)
    IN  IF tx.err THEN dreq' = [dreq EXCEPT ![d].pc = "save_failed"]
        ELSE IF depRouter = "retry" /\ tx.sender # dreq[d].wallet
        THEN DepRespond(d, FALSE, "Transaction sender does not match wallet_address", NULL)
        ELSE IF ~tx.toEscrow
        THEN DepRespond(d, FALSE, "Transaction is not a transfer to the escrow wallet", NULL)
        ELSE IF RLt(tolerance, RMax(diff, RSub(Zero, diff)))
        THEN DepRespond(d, FALSE, "Amount mismatch", NULL)
        ELSE dreq' = [dreq EXCEPT ![d].pc = "credit"]

\* connection.getTransaction; the retrying handler waits and tries again, up
\* to maxRetries lookups
DepositLookup(d) ==
    /\ dreq[d].pc = "lookup"
    /\ IF dreq[d].sig \in visible THEN verifyTransaction(d)
       ELSE IF depRouter = "single" THEN dreq' = [dreq EXCEPT ![d].pc = "save_pending"]
       ELSE dreq' = [dreq EXCEPT ![d].attempt = @ + 1,
                                 ![d].pc = IF dreq[d].attempt + 1 < maxRetries
                                           THEN "lookup" ELSE "recheck"]
    /\ UNCHANGED <<balance, history, depRouter, visible, wdVars, gameVars>>

\* retrying handler, transaction never seen: the existingPending check
DepositRecheckPending(d) ==
    /\ dreq[d].pc = "recheck"
    /\ IF recordsOf(dreq[d].sig) = {}
       THEN dreq' = [dreq EXCEPT ![d].pc = "save_pending"]
       ELSE DepRespond(d, FALSE, "Transaction not confirmed yet", NULL)
    /\ UNCHANGED <<balance, history, depRouter, visible, wdVars, gameVars>>

\* the pending record is created
DepositSavePending(d) ==
    /\ dreq[d].pc = "save_pending"
    /\ history' = Append(history,
                    depositRecord(dreq[d].wallet, dreq[d].amount, dreq[d].sig, "pending"))
    /\ DepRespond(d, FALSE, IF depRouter = "single" THEN "Transaction not found on chain yet"
                            ELSE "Transaction not confirmed yet", NULL)
    /\ UNCHANGED <<balance, depRouter, visible, wdVars, gameVars>>

\* the failed record is created
DepositSaveFailed(d) ==
    /\ dreq[d].pc = "save_failed"
    /\ history' = Append(history,
                    depositRecord(dreq[d].wallet, dreq[d].amount, dreq[d].sig, "failed"))
    /\ DepRespond(d, FALSE, "Transaction failed on chain", NULL)
    /\ UNCHANGED <<balance, depRouter, visible, wdVars, gameVars>>

\* the ledger is credited
DepositCredit(d) ==
    /\ dreq[d].pc = "credit"
    /\ balance' = [balance EXCEPT ![dreq[d].wallet] = RAdd(@, dreq[d].amount)]
    /\ dreq' = [dreq EXCEPT ![d].pc = "save_confirmed", ![d].credited = TRUE,
                            ![d].balanceRead = RAdd(balance[dreq[d].wallet], dreq[d].amount)]
    /\ UNCHANGED <<history, depRouter, visible, wdVars, gameVars>>

\* the confirmed record is created
DepositSaveConfirmed(d) ==
    /\ dreq[d].pc = "save_confirmed"
    /\ history' = Append(history,
                    depositRecord(dreq[d].wallet, dreq[d].amount, dreq[d].sig, "confirmed"))
    /\ DepRespond(d, TRUE, "confirmed", dreq[d].balanceRead)
    /\ UNCHANGED <<balance, depRouter, visible, wdVars, gameVars>>

\* the chain RPC starts to return the transaction of a signature
ChainShows(sig) ==
    /\ sig \notin visible
    /\ visible' = visible \cup {sig}
    /\ UNCHANGED <<balance, history, depRouter, dreq, wdVars, gameVars>>

----------------------------------------------------------------------------
(* Realtime hub (websocket/server, websocket/handlers): the connection      *)
(* registry, the frame handlers, channel broadcasts and the heartbeat       *)

Conns == 1..MaxConns

CHANNELS == {"round", "trades", "chat", "prices"}

\* the frames a peer sends: unparsable data, or a JSON object with a type and
\* the fields the handlers read ("" and <<>> stand for a missing field)
NoChannels == <<"missing">>
ChannelLists == {<<>>, <<"round">>, <<"lobby">>, <<"chat", "lobby">>}
ChatTexts == {"", "  ", "<hi> ", "long"}
Frame(json, type, channels, wallet, message) ==
    [json |-> json, type |-> type, channels |-> channels, wallet_address |-> wallet,
     message |-> message]
Frames ==
    {Frame(FALSE, "", NoChannels, "", ""), Frame(TRUE, "dance", NoChannels, "", ""),
     Frame(TRUE, "ping", NoChannels, "", "")}
    \cup {Frame(TRUE, "subscribe", l, "", "") : l \in ChannelLists \cup {NoChannels}}
    \cup {Frame(TRUE, "unsubscribe", l, "", "") : l \in {<<"chat">>, <<"round">>, NoChannels}}
    \cup {Frame(TRUE, "identify", NoChannels, w, "") : w \in {"", "p1", "px"}}
    \cup {Frame(TRUE, "chat", NoChannels, "", m) : m \in ChatTexts}

\* text.length, text.trim() and the sanitizing replace of the texts above
TextLength(text) ==
    CASE text = "" -> 0 [] text = "  " -> 2 [] text = "<hi> " -> 5 [] OTHER -> 501
Trim(text) == CASE text = "  " -> "" [] text = "<hi> " -> "<hi>" [] OTHER -> text
sanitizedMessage(text) == IF Trim(text) = "<hi>" THEN "&lt;hi&gt;" ELSE Trim(text)

Range(list) == {list[i] : i \in 1..Len(list)}

IdleFrame == [pc |-> "idle", wallet_address |-> "", message |-> ""]

\* clients.delete(ws)
clientsDelete(c) == [k \in DOMAIN clients \ {c} |-> clients[k]]

\* sendToClient: the frame is sent when the socket is open
sendToClient(c, type) ==
    sent' = IF readyState[c] = "OPEN" THEN [type |-> type, to |-> {c}] ELSE sent

\* a socket is accepted: handleConnection registers it and sends the welcome
handleConnection(c) ==
    /\ readyState[c] = "CLOSED"
    /\ c \notin DOMAIN clients
    /\ wsreq[c].pc = "idle"
    /\ readyState' = [readyState EXCEPT ![c] = "OPEN"]
    /\ clients' = [k \in DOMAIN clients \cup {c} |->
                     IF k = c THEN [walletAddress |-> "", subscriptions |-> {},
                                    isAlive |-> TRUE]
                     ELSE clients[k]]
    /\ sent' = [type |-> "CONNECTED", to |-> {c}]
    /\ pinged' = [pinged EXCEPT ![c] = FALSE]
    /\ UNCHANGED <<wsreq, chatMessages, storeVars>>

\* the peer closes the socket or the network drops it
SocketCloses(c) ==
    /\ readyState[c] = "OPEN"
    /\ readyState' = [readyState EXCEPT ![c] = "CLOSED"]
    /\ UNCHANGED <<clients, wsreq, sent, pinged, chatMessages, storeVars>>

\* the 'close' event of a registered socket
handleClose(c) ==
    /\ readyState[c] = "CLOSED"
    /\ c \in DOMAIN clients
    /\ clients' = clientsDelete(c)
    /\ UNCHANGED <<readyState, wsreq, sent, pinged, chatMessages, storeVars>>

\* the 'error' event of a registered socket
handleError(c) ==
    /\ readyState[c] = "OPEN"
    /\ c \in DOMAIN clients
    /\ clients' = clientsDelete(c)
    /\ UNCHANGED <<readyState, wsreq, sent, pinged, chatMessages, storeVars>>

\* subscribeClient
subscribeClient(c, channels) ==
    clients' = IF c \in DOMAIN clients
               THEN [clients EXCEPT ![c].subscriptions = @ \cup channels]
               ELSE clients

\* unsubscribeClient
unsubscribeClient(c, channels) ==
    clients' = IF c \in DOMAIN clients
               THEN [clients EXCEPT ![c].subscriptions = @ \ channels]
               ELSE clients

\* identifyClient
identifyClient(c, walletAddress) ==
    clients' = IF c \in DOMAIN clients
               THEN [clients EXCEPT ![c].walletAddress = walletAddress]
               ELSE clients

\* a subscribe handler that accepts a frame with no valid channel
handleSubscribe_lenient(c, frame) ==
    /\ subscribeClient(c, Range(frame.channels) \cap CHANNELS)
    /\ sendToClient(c, "SUBSCRIBED")

\* handleSubscribe
handleSubscribe(c, frame) ==
    LET validChannels == Range(frame.channels) \cap CHANNELS
    IN  IF validChannels = {}
        THEN sendToClient(c, "ERROR") /\ UNCHANGED clients
        ELSE subscribeClient(c, validChannels) /\ sendToClient(c, "SUBSCRIBED")

\* handleUnsubscribe
handleUnsubscribe(c, frame) ==
    /\ unsubscribeClient(c, Range(frame.channels))
    /\ sendToClient(c, "UNSUBSCRIBED")

\* handleChat up to its first await
handleChat(c, frame) ==
    IF c \notin DOMAIN clients \/ clients[c].walletAddress = ""
    THEN sendToClient(c, "ERROR") /\ UNCHANGED wsreq
    ELSE IF frame.message = "" \/ TextLength(Trim(frame.message)) = 0
    THEN sendToClient(c, "ERROR") /\ UNCHANGED wsreq
    ELSE IF TextLength(frame.message) > 500
    THEN sendToClient(c, "ERROR") /\ UNCHANGED wsreq
    ELSE /\ Len(chatMessages) < MaxChats
         /\ wsreq' = [wsreq EXCEPT ![c] = [pc |-> "chat_profile",
                                           wallet_address |-> clients[c].walletAddress,
                                           message |-> frame.message]]
         /\ UNCHANGED sent

\* handleMessage: a frame arrives on an open socket and is served up to the
\* handler's first await; an exception in a handler is caught and answered
handleMessage(c, frame) ==
    /\ readyState[c] = "OPEN"
    /\ wsreq[c].pc = "idle"
    /\ IF ~frame.json
       THEN sendToClient(c, "ERROR") /\ UNCHANGED <<clients, wsreq>>
       ELSE CASE frame.type = "subscribe" ->
                   IF frame.channels = NoChannels
                   THEN sendToClient(c, "ERROR") /\ UNCHANGED <<clients, wsreq>>
                   ELSE handleSubscribe(c, frame) /\ UNCHANGED wsreq
              [] frame.type = "unsubscribe" ->
                   IF frame.channels = NoChannels
                   THEN sendToClient(c, "ERROR") /\ UNCHANGED <<clients, wsreq>>
                   ELSE handleUnsubscribe(c, frame) /\ UNCHANGED wsreq
              [] frame.type = "identify" ->
                   IF frame.wallet_address = ""
                   THEN sendToClient(c, "ERROR") /\ UNCHANGED <<clients, wsreq>>
                   ELSE /\ wsreq' = [wsreq EXCEPT ![c] =
                               [IdleFrame EXCEPT !.pc = "identify",
                                                 !.wallet_address = frame.wallet_address]]
                        /\ UNCHANGED <<clients, sent>>
              [] frame.type = "chat" -> handleChat(c, frame) /\ UNCHANGED clients
              [] frame.type = "ping" -> sendToClient(c, "PONG") /\ UNCHANGED <<clients, wsreq>>
              [] OTHER -> sendToClient(c, "ERROR") /\ UNCHANGED <<clients, wsreq>>
    /\ UNCHANGED <<readyState, pinged, chatMessages, storeVars>>

\* handleIdentify after the profile lookup
handleIdentify(c) ==
    /\ wsreq[c].pc = "identify"
    /\ IF wsreq[c].wallet_address \in Profiles
       THEN identifyClient(c, wsreq[c].wallet_address) /\ sendToClient(c, "IDENTIFIED")
       ELSE sendToClient(c, "ERROR") /\ UNCHANGED clients
    /\ wsreq' = [wsreq EXCEPT ![c] = IdleFrame]
    /\ UNCHANGED <<readyState, pinged, chatMessages, storeVars>>

\* handleChat after the profile lookup
ChatProfile(c) ==
    /\ wsreq[c].pc = "chat_profile"
    /\ IF wsreq[c].wallet_address \in Profiles
       THEN wsreq' = [wsreq EXCEPT ![c].pc = "chat_create"] /\ UNCHANGED sent
       ELSE sendToClient(c, "ERROR") /\ wsreq' = [wsreq EXCEPT ![c] = IdleFrame]
    /\ UNCHANGED <<clients, readyState, pinged, chatMessages, storeVars>>

\* getSubscribers and the readyState test of broadcastToChannel
subscribersOf_all(channel) == DOMAIN clients
subscribersOf(channel) ==
    {c \in DOMAIN clients : channel \in clients[c].subscriptions /\ readyState[c] = "OPEN"}

\* broadcastToChannel: the event goes to the open sockets of the subscribers
broadcastToChannel(channel) ==
    sent' = [type |-> channel, to |-> subscribersOf(channel)]

\* handleChat after chatMessage.create: the stored message is broadcast
ChatCreate(c) ==
    /\ wsreq[c].pc = "chat_create"
    /\ chatMessages' = Append(chatMessages,
                          [wallet_address |-> wsreq[c].wallet_address,
                           message |-> sanitizedMessage(wsreq[c].message)])
    /\ broadcastToChannel("chat")
    /\ wsreq' = [wsreq EXCEPT ![c] = IdleFrame]
    /\ UNCHANGED <<clients, readyState, pinged, storeVars>>

\* a round, trade or price event of the game is broadcast on its channel
GameBroadcast(channel) ==
    /\ broadcastToChannel(channel)
    /\ UNCHANGED <<clients, readyState, wsreq, pinged, chatMessages, storeVars>>

\* the heartbeat timer: a client not alive is deleted and terminated, the
\* others are marked not alive and pinged (the ping frame leaves on an open
\* socket only)
Heartbeat ==
    /\ clients' = [c \in {k \in DOMAIN clients : clients[k].isAlive} |->
                     [clients[c] EXCEPT !.isAlive = FALSE]]
    /\ readyState' = [c \in Conns |->
                        IF c \in DOMAIN clients /\ ~clients[c].isAlive
                        THEN "CLOSED" ELSE readyState[c]]
    /\ pinged' = [c \in Conns |->
                    IF c \in DOMAIN clients /\ clients[c].isAlive THEN TRUE ELSE pinged[c]]
    /\ sent' = IF \E c \in DOMAIN clients : clients[c].isAlive /\ readyState[c] = "OPEN"
               THEN [type |-> "ping",
                     to |-> {c \in DOMAIN clients : clients[c].isAlive
                                                     /\ readyState[c] = "OPEN"}]
               ELSE sent
    /\ UNCHANGED <<wsreq, chatMessages, storeVars>>

\* a pong that is never counted
Pong_ignored(c) ==
    /\ readyState[c] = "OPEN"
    /\ pinged[c]
    /\ pinged' = [pinged EXCEPT ![c] = FALSE]
    /\ UNCHANGED <<clients, readyState, wsreq, sent, chatMessages, storeVars>>

\* the peer answers the ping: the 'pong' handler
Pong(c) ==
    /\ readyState[c] = "OPEN"
    /\ pinged[c]
    /\ pinged' = [pinged EXCEPT ![c] = FALSE]
    /\ clients' = IF c \in DOMAIN clients THEN [clients EXCEPT ![c].isAlive = TRUE]
                  ELSE clients
    /\ UNCHANGED <<readyState, wsreq, sent, chatMessages, storeVars>>

----------------------------------------------------------------------------
Init ==
    /\ rounds = <<>>
    /\ timeUp = {}
    /\ positions = [k \in RoundIds \X Profiles |-> NoPosition]
    /\ balance = [p \in Profiles |-> InitialBalance]
    /\ trades = <<>>
    /\ treq = [t \in TradeIds |-> IdleTrade]
    /\ started = 0
    /\ isRunning = FALSE
    /\ checkInterval = FALSE
    /\ countdownInterval = FALSE
    /\ leakedCountdown = FALSE
    /\ countdownSeconds = 0
    /\ currentRound = 0
    /\ tick = [i \in TickIds |-> IdleTick]
    /\ cdPending = 0
    /\ http = "idle"
    /\ force = IdleForce
    /\ history = <<>>
    /\ wdRouter = "none"
    /\ wreq = [w \in WdIds |-> IdleWd]
    /\ depRouter = "none"
    /\ dreq = [d \in DepIds |-> IdleDep]
    /\ visible = {}
    /\ clients = <<>>
    /\ readyState = [c \in Conns |-> "CLOSED"]
    /\ wsreq = [c \in Conns |-> IdleFrame]
    /\ sent = [type |-> "none", to |-> {}]
    /\ pinged = [c \in Conns |-> FALSE]
    /\ chatMessages = <<>>

NextTrade ==
    \/ \E t \in TradeIds, k \in {"buy", "sell", "sellall"}, p \in Profiles, a \in TradeAmounts :
          started < MaxTrades /\ TradeRequest(t, k, p, a)
    \/ \E t \in TradeIds : BuyReadProfile(t)
    \/ \E t \in TradeIds : BuyReadRound(t)
    \/ \E t \in TradeIds : BuyReadPosition(t)
    \/ \E t \in TradeIds : BuyCommit(t)
    \/ \E t \in TradeIds : SellAllReadPosition(t)
    \/ \E t \in TradeIds : SellReadRound(t)
    \/ \E t \in TradeIds : SellReadPosition(t)
    \/ \E t \in TradeIds : SellCommit(t)
    \/ RoundOpens
    \/ \E r \in RoundIds : RoundSettles(r)
    \/ \E r \in RoundIds : TimePasses(r)

SpecTrade == Init /\ [][NextTrade]_vars

NextRound ==
    \/ startRoundManager
    \/ stopRoundManager
    \/ \E i \in TickIds : TickFires(i)
    \/ \E i \in TickIds : TickGetActive(i)
    \/ \E i \in TickIds : TickCreate(i)
    \/ \E i \in TickIds : TickEndRead(i)
    \/ \E i \in TickIds : TickEndUpdate(i)
    \/ CountdownFires
    \/ CountdownCreate
    \/ HttpRound
    \/ HttpGetActive
    \/ HttpCreate
    \/ ForceNewRound
    \/ ForceEnd
    \/ ForceCreate
    \/ \E r \in RoundIds : TimePasses(r)

SpecRound == Init /\ [][NextRound]_vars

\* trades against the round the manager's tick opens and settles; the check
\* timer's callbacks run one at a time here (SpecRound has them overlap)
SettleTicks == {1}

NextSettle ==
    \/ \E t \in TradeIds, k \in {"buy", "sell", "sellall"}, p \in Profiles, a \in TradeAmounts :
          started < MaxTrades /\ TradeRequest(t, k, p, a)
    \/ \E t \in TradeIds : BuyReadProfile(t)
    \/ \E t \in TradeIds : BuyReadRound(t)
    \/ \E t \in TradeIds : BuyReadPosition(t)
    \/ \E t \in TradeIds : BuyCommit(t)
    \/ \E t \in TradeIds : SellAllReadPosition(t)
    \/ \E t \in TradeIds : SellReadRound(t)
    \/ \E t \in TradeIds : SellReadPosition(t)
    \/ \E t \in TradeIds : SellCommit(t)
    \/ startRoundManager
    \/ \E i \in SettleTicks : TickFires(i)
    \/ \E i \in SettleTicks : TickGetActive(i)
    \/ \E i \in SettleTicks : TickCreate(i)
    \/ \E i \in SettleTicks : TickEndRead(i)
    \/ \E i \in SettleTicks : TickEndUpdate(i)
    \/ \E i \in SettleTicks : TickNotify(i)
    \/ \E r \in RoundIds : TimePasses(r)

SpecSettle == Init /\ [][NextSettle]_vars

\* one participant's buys against the rounds that overlapping ticks open and
\* settle; a countdown that has started is still running
NextCountdown ==
    \/ \E t \in TradeIds : started < MaxTrades /\ TradeRequest(t, "buy", "p1", Rat(1, 1))
    \/ \E t \in TradeIds : BuyReadProfile(t)
    \/ \E t \in TradeIds : BuyReadRound(t)
    \/ \E t \in TradeIds : BuyReadPosition(t)
    \/ \E t \in TradeIds : BuyCommit(t)
    \/ startRoundManager
    \/ \E i \in TickIds : TickFires(i)
    \/ \E i \in TickIds : TickGetActive(i)
    \/ \E i \in TickIds : TickCreate(i)
    \/ \E i \in TickIds : TickEndRead(i)
    \/ \E i \in TickIds : TickEndUpdate(i)
    \/ \E i \in TickIds : TickNotify(i)
    \/ \E r \in RoundIds : TimePasses(r)

SpecCountdown == Init /\ [][NextCountdown]_vars

NextWithdraw ==
    \/ \E w \in WdIds, router \in WdRouters, p \in Profiles, amt \in WithdrawAmounts :
         WithdrawRequest(w, router, p, amt)
    \/ \E w \in WdIds : WithdrawTx(w)
    \/ \E w \in WdIds : WithdrawReadProfile(w)
    \/ \E w \in WdIds : WithdrawCreateRecord(w)
    \/ \E w \in WdIds : WithdrawTransfer(w)
    \/ \E w \in WdIds : WithdrawDebit(w)
    \/ \E w \in WdIds : WithdrawConfirm(w)
    \/ \E w \in WdIds : WithdrawRefund(w)
    \/ \E w \in WdIds : WithdrawMarkFailed(w)

SpecWithdraw == Init /\ [][NextWithdraw]_vars

NextDeposit ==
    \/ \E d \in DepIds, router \in DepRouters, p \in Profiles, sig \in Signatures,
          amt \in DepositAmounts : DepositRequest(d, router, p, sig, amt)
    \/ \E d \in DepIds : DepositReadProfile(d)
    \/ \E d \in DepIds : DepositCheckExisting(d)
    \/ \E d \in DepIds : DepositRefetch(d)
    \/ \E d \in DepIds : DepositLookup(d)
    \/ \E d \in DepIds : DepositRecheckPending(d)
    \/ \E d \in DepIds : DepositSavePending(d)
    \/ \E d \in DepIds : DepositSaveFailed(d)
    \/ \E d \in DepIds : DepositCredit(d)
    \/ \E d \in DepIds : DepositSaveConfirmed(d)
    \/ \E sig \in Signatures : ChainShows(sig)

SpecDeposit == Init /\ [][NextDeposit]_vars

NextRealtime ==
    \/ \E c \in Conns : handleConnection(c)
    \/ \E c \in Conns : SocketCloses(c)
    \/ \E c \in Conns : handleClose(c)
    \/ \E c \in Conns : handleError(c)
    \/ \E c \in Conns, frame \in Frames : handleMessage(c, frame)
    \/ \E c \in Conns : handleIdentify(c)
    \/ \E c \in Conns : ChatProfile(c)
    \/ \E c \in Conns : ChatCreate(c)
    \/ GameBroadcast("round")
    \/ Heartbeat
    \/ \E c \in Conns : Pong(c)

SpecRealtime == Init /\ [][NextRealtime]_vars

\* the manager left running: its timers and their callbacks, round creation
\* at countdown zero failing or not; timers fire and storage calls return
NextRecur ==
    \/ startRoundManager
    \/ \E i \in TickIds : TickFires(i)
    \/ \E i \in TickIds : TickGetActive(i)
    \/ \E i \in TickIds : TickCreate(i)
    \/ \E i \in TickIds : TickEndRead(i)
    \/ \E i \in TickIds : TickEndUpdate(i)
    \/ CountdownFires
    \/ CountdownCreate
    \/ CountdownCreateFails
    \/ \E r \in RoundIds : TimePasses(r)

SpecRecur ==
    /\ Init
    /\ [][NextRecur]_vars
    /\ \A i \in TickIds :
          /\ WF_vars(TickFires(i))
          /\ WF_vars(TickGetActive(i))
          /\ WF_vars(TickCreate(i))
          /\ WF_vars(TickEndRead(i))
          /\ WF_vars(TickEndUpdate(i))
    /\ WF_vars(CountdownFires)
    /\ WF_vars(CountdownCreate)

\* one participant buying and selling half a SOL at a time in one round
NextResell ==
    \/ \E t \in TradeIds, k \in {"buy", "sell", "sellall"} :
          started < MaxResells /\ TradeRequest(t, k, "p1", Rat(1, 2))
    \/ \E t \in TradeIds : BuyReadProfile(t)
    \/ \E t \in TradeIds : BuyReadRound(t)
    \/ \E t \in TradeIds : BuyReadPosition(t)
    \/ \E t \in TradeIds : BuyCommit(t)
    \/ \E t \in TradeIds : SellAllReadPosition(t)
    \/ \E t \in TradeIds : SellReadRound(t)
    \/ \E t \in TradeIds : SellReadPosition(t)
    \/ \E t \in TradeIds : SellCommit(t)
    \/ RoundOpens

SpecResell == Init /\ [][NextResell]_vars

\* the frame handlers alone, without heartbeat and game broadcasts
NextFrames ==
    \/ \E c \in Conns : handleConnection(c)
    \/ \E c \in Conns : SocketCloses(c)
    \/ \E c \in Conns : handleClose(c)
    \/ \E c \in Conns, frame \in Frames : handleMessage(c, frame)
    \/ \E c \in Conns : handleIdentify(c)
    \/ \E c \in Conns : ChatProfile(c)
    \/ \E c \in Conns : ChatCreate(c)

SpecFrames == Init /\ [][NextFrames]_vars

Next ==
    \/ NextTrade
    \/ NextRound
    \/ \E i \in TickIds : TickNotify(i)
    \/ NextWithdraw
    \/ NextDeposit
    \/ NextRealtime

Spec == Init /\ [][Next]_vars

----------------------------------------------------------------------------
(* Properties *)

PoolOfRound(r) == rounds[r].pool_sol_balance

\* pool effect of the committed trades of round r, summed over the trade log:
\* a buy adds its amount less the fee, a sell removes its gross payout
RECURSIVE SumDelta(_, _)
SumDelta(r, i) ==
    IF i = 0 THEN Zero
    ELSE LET t == trades[i]
         IN  RAdd(SumDelta(r, i - 1),
                  IF t.round_id # r THEN Zero
                  ELSE IF t.trade_type = "buy" THEN RSub(t.sol_amount, t.fee_amount)
                  ELSE RSub(Zero, t.sol_amount))

\* C1: over any run of successful buys and sells the pool solBalance of every
\* round is never negative, and the gross SOL a committing sell pays out (before
\* the 2% fee) is at most the pool solBalance held immediately before the commit.
C1_PoolCoversEverySell ==
    /\ [](\A r \in 1..Len(rounds) : RLe(Zero, PoolOfRound(r)))
    /\ [][\A t \in TradeIds :
            (treq[t].pc = "sell_commit" /\ treq'[t].pc = "idle" /\ treq'[t].result = "ok")
            => RLe(sellGross(treq[t].pool, treq[t].position, treq[t].amount),
                   PoolOfRound(treq[t].round))]_vars

\* C2: in every reachable state at most one round has status active.
C2_AtMostOneActiveRound == Cardinality(ActiveRounds) <= 1

\* C3: the depositedBalance of every participant is never negative.
C3_BalanceNeverNegative == \A p \in Profiles : RLe(Zero, balance[p])

\* C4: trades on a round serialize, so no committed trade's pool update is
\* lost: the pool solBalance of every round equals the initial pool plus the
\* effects of all the trades committed on it.
C4_NoLostPoolUpdate ==
    \A r \in 1..Len(rounds) :
        PoolOfRound(r) = RAdd(getInitialPool.sol_balance, SumDelta(r, Len(trades)))

\* C5: whatever the number and the interleaving of the confirmation requests
\* that carry one tx_signature, at most one of them credits the ledger.
C5_CreditedAtMostOnce ==
    \A sig \in Signatures :
        Cardinality({d \in DepIds : dreq[d].sig = sig /\ dreq[d].credited}) <= 1

\* C6: a confirmation request that finds a record of its tx_signature never
\* credits: the step in which it finds the record, and the balance refetch of
\* the retrying handler, leave the ledger and the records unchanged and answer
\* with the ledger balance the request read.
C6_RepeatConfirmationIsNoOp ==
    /\ [](\A d \in DepIds : dreq[d].existing # "none" => ~dreq[d].credited)
    /\ [][\A d \in DepIds :
            /\ (dreq[d].pc = "existing" /\ recordsOf(dreq[d].sig) # {} /\ dreq'[d] # dreq[d])
               => /\ balance' = balance
                  /\ history' = history
                  /\ \/ dreq'[d].pc = "refetch"
                     \/ /\ dreq'[d].pc = "done"
                        /\ dreq'[d].response.message = "Transaction already processed"
                        /\ dreq'[d].response.new_balance = dreq[d].balanceRead
            /\ (dreq[d].pc = "refetch" /\ dreq'[d] # dreq[d])
               => /\ balance' = balance
                  /\ history' = history
                  /\ dreq'[d].pc = "done"
                  /\ dreq'[d].response.new_balance = balance[dreq[d].wallet]]_vars

C6_Witness ==
    \E d1, d2 \in DepIds :
        /\ d1 # d2
        /\ dreq[d1].sig = dreq[d2].sig
        /\ dreq[d1].wallet = dreq[d2].wallet
        /\ dreq[d1].pc = "done" /\ dreq[d1].credited
        /\ dreq[d2].pc = "done" /\ dreq[d2].existing = "confirmed"
        /\ dreq[d2].response.message = "Transaction already processed"
        /\ dreq[d2].response.new_balance = balance[dreq[d2].wallet]
        /\ balance[dreq[d1].wallet] = RAdd(InitialBalance, dreq[d1].amount)

\* what the withdrawal requests of participant p, up to id n, hold debited
RECURSIVE HeldUpTo(_, _)
HeldUpTo(p, n) ==
    IF n = 0 THEN Zero
    ELSE RAdd(HeldUpTo(p, n - 1), IF wreq[n].profile = p THEN wreq[n].held ELSE Zero)

\* with withdrawals alone, the ledger is the initial balance less what is held
WithdrawLedger ==
    \A p \in Profiles : balance[p] = RSub(InitialBalance, HeldUpTo(p, MaxWithdrawals))

\* C7: under any interleaving of withdrawal requests by one participant the
\* amounts debited by the accepted requests never sum to more than the balance
\* that was available.
C7_DebitsWithinBalance ==
    \A p \in Profiles : RLe(HeldUpTo(p, MaxWithdrawals), InitialBalance)

\* C8: whenever a withdrawal is about to invoke the external transfer, its
\* amount is already debited from the ledger and its pending record is written.
C8_TransferAfterDebit ==
    \A w \in WdIds :
        wreq[w].pc = "transfer" =>
            /\ wreq[w].held = wreq[w].amount
            /\ wreq[w].rec # 0
            /\ history[wreq[w].rec].status = "pending"

CompensationSucceeded(w) ==
    ~wreq[w].critical /\ wreq[w].response # "Internal server error"

C10_OverBalanceRejected ==
    [][\A w \in WdIds :
          (/\ wreq[w].pc \in {"tx", "profile"}
           /\ wreq'[w].pc # wreq[w].pc
           /\ RLt(balance[wreq[w].profile], wreq[w].amount))
          => /\ wreq'[w].pc = "done"
             /\ wreq'[w].response = "Insufficient balance"
             /\ balance' = balance
             /\ history' = history
             /\ wreq'[w].rec = 0
             /\ wreq'[w].transfer = "none"]_vars

C10_Witness ==
    \E w \in WdIds :
        /\ wreq[w].pc = "done"
        /\ wreq[w].response = "Insufficient balance"
        /\ RLt(balance[wreq[w].profile], wreq[w].amount)
        /\ wreq[w].rec = 0
        /\ wreq[w].transfer = "none"

\* the steps of withdrawal request w
WithdrawStep(w) ==
    \/ WithdrawTx(w) \/ WithdrawReadProfile(w) \/ WithdrawCreateRecord(w)
    \/ WithdrawTransfer(w) \/ WithdrawDebit(w) \/ WithdrawConfirm(w)
    \/ WithdrawRefund(w) \/ WithdrawMarkFailed(w)

\* C11: when the external transfer failed and the compensating credit fails
\* too, the request ends at once with the critical log: that step changes
\* neither the ledger nor the records, so the amount stays debited and the
\* record is not confirmed; a finished request takes no further step; and the
\* other requests in progress can still take theirs.
C11_RefundFailureIsTerminal ==
    /\ [][\A w \in WdIds :
            /\ (wreq[w].pc = "refund" /\ wreq'[w].pc = "done" /\ wreq[w].transfer = "failed")
               => /\ wreq'[w].critical
                  /\ balance' = balance
                  /\ history' = history
                  /\ wreq'[w].held = wreq[w].amount
                  /\ history[wreq[w].rec].status = "pending"
            /\ wreq[w].pc = "done" => wreq'[w] = wreq[w]]_vars
    /\ [](\A w \in WdIds :
            (wreq[w].pc = "done" /\ wreq[w].critical) =>
                \A u \in WdIds : wreq[u].pc \notin {"idle", "done"} => ENABLED WithdrawStep(u))

C11_Witness ==
    \E w, u \in WdIds :
        /\ wdRouter = "locked"
        /\ wreq[w].pc = "done" /\ wreq[w].transfer = "failed" /\ wreq[w].critical
        /\ wreq[w].held = wreq[w].amount
        /\ history[wreq[w].rec].status = "pending"
        /\ wreq[u].profile = wreq[w].profile
        /\ wreq[u].pc = "done" /\ wreq[u].response = "success"
        /\ balance[wreq[w].profile] = RSub(RSub(InitialBalance, wreq[w].amount), wreq[u].amount)

\* the chain shows the transaction of request d, it did not fail, its sender
\* is the participant of the request, the escrow wallet is a destination and
\* received the stated amount within the tolerance
DepositChecksHold(p, sig, amt) ==
    LET tx == ChainTx[sig]
        diff == RSub(tx.escrowReceived, amt)
    IN  /\ sig \in visible
        /\ ~tx.err
        /\ tx.sender = p
        /\ tx.toEscrow
        /\ RLe(RMax(diff, RSub(Zero, diff)), tolerance)

\* C12: a deposit request credits the ledger, and a record is confirmed, only
\* when the transaction was observed, did not fail on the chain, was sent by
\* the claimed participant, pays the escrow wallet and matches the amount
\* within the tolerance; a request that did not credit left the ledger alone.
C12_CreditOnlyVerifiedDeposits ==
    /\ \A d \in DepIds :
          dreq[d].credited => DepositChecksHold(dreq[d].wallet, dreq[d].sig, dreq[d].amount)
    /\ \A i \in 1..Len(history) :
          (history[i].tx_type = "deposit" /\ history[i].status = "confirmed")
              => DepositChecksHold(history[i].profile_id, history[i].tx_signature,
                                   history[i].amount)

\* C13: in every state a position has an entry multiplier exactly when it
\* holds tokens.
C13_EntrySetIffTokensHeld ==
    \A r \in RoundIds, p \in Profiles :
        (positions[r, p].entry_price # NULL) <=> RLt(Zero, positions[r, p].token_balance)

\* C14: endRound called on a round it reads as completed returns at once with
\* no forfeitures (the tick goes straight to the countdown, the forced end to
\* the creation) and changes no round, position, ledger or trade record,
\* however many times it is called.
C14_EndRoundIdempotent ==
    [][/\ \A i \in TickIds :
            (tick[i].pc = "end" /\ rounds[tick[i].round].status = "completed"
                                /\ tick'[i] # tick[i])
                => /\ tick'[i] = IdleTick
                   /\ rounds' = rounds
                   /\ <<positions, balance, trades>>' = <<positions, balance, trades>>
       /\ (force.pc = "end" /\ rounds[force.round].status = "completed" /\ force' # force)
                => /\ rounds' = rounds
                   /\ <<positions, balance, trades>>' = <<positions, balance, trades>>]_vars

\* the only round was completed by one update, and startCountdown has run
\* again since: a later endRound found it completed
C14_Witness ==
    /\ Len(rounds) = 1
    /\ rounds[1].status = "completed" /\ rounds[1].ended_at = 1
    /\ leakedCountdown
    /\ \A i \in TickIds : tick[i].pc = "idle"

\* C15: when a participant's first trade in a round is a buy and the next
\* trade committed in the system is the same participant's sell of the whole
\* stake bought, the sell credits the ledger with no more than the buy took.
C15_NoSelfProfit ==
    \A i \in 1..(Len(trades) - 1) :
        LET b == trades[i]
            s == trades[i + 1]
        IN  (/\ b.trade_type = "buy" /\ s.trade_type = "sell"
             /\ s.profile_id = b.profile_id /\ s.round_id = b.round_id
             /\ s.token_amount = b.token_amount
             /\ \A j \in 1..(i - 1) :
                   ~(trades[j].profile_id = b.profile_id /\ trades[j].round_id = b.round_id))
            => RLe(RSub(s.sol_amount, s.fee_amount), b.sol_amount)

\* C16: at most one execution of checkAndManageRounds (with the settlement it
\* triggers) is in progress at any time.
C16_OneTickAtATime ==
    Cardinality({i \in TickIds : tick[i].pc # "idle"}) <= 1

\* the trade records of round r
TradesOf(r) == SelectSeq(trades, LAMBDA tr : tr.round_id = r)

\* C17: no step changes the pool, the price, a position or the trade records
\* of a round that is completed or whose duration has elapsed.
C17_NoTradeAfterRoundEnd ==
    [][\A r \in 1..Len(rounds) :
          (rounds[r].status = "completed" \/ isRoundExpired(r))
              => /\ rounds'[r].pool_sol_balance = rounds[r].pool_sol_balance
                 /\ rounds'[r].pool_token_supply = rounds[r].pool_token_supply
                 /\ rounds'[r].current_price = rounds[r].current_price
                 /\ \A p \in Profiles : positions'[r, p] = positions[r, p]
                 /\ TradesOf(r)' = TradesOf(r)]_vars

\* the positions of round r that hold tokens, each valued at its token
\* balance times the round's current multiplier
HoldersAtSettlement(r) ==
    {[profileId |-> p,
      tokenBalance |-> positions[r, p].token_balance,
      solValue |-> RMul(positions[r, p].token_balance, getMultiplier(PoolOf(rounds[r])))] :
        p \in {q \in Profiles : RLt(Zero, positions[r, q].token_balance)}}

\* C18: the settlement of a round marks it completed with an end time, its
\* forfeiture list is exactly the positions holding tokens at that moment,
\* each valued at token balance times the current multiplier, and it changes
\* no ledger balance, no position and no pool field.
C18_SettlementForfeitsHolders ==
    [][\A i \in TickIds :
          (tick[i].pc = "end_update" /\ tick'[i] # tick[i])
              => LET r == tick[i].round
                 IN  /\ rounds'[r].status = "completed"
                     /\ rounds'[r].ended_at > 0
                     /\ tick[i].forfeitures = HoldersAtSettlement(r)
                     /\ balance' = balance
                     /\ positions' = positions
                     /\ rounds'[r].pool_sol_balance = rounds[r].pool_sol_balance
                     /\ rounds'[r].pool_token_supply = rounds[r].pool_token_supply
                     /\ rounds'[r].current_price = rounds[r].current_price]_vars

\* the last trade record
LastTrade(log) == log[Len(log)]

C20_SellEffects ==
    [][\A s \in TradeIds :
          (treq[s].pc = "sell_commit" /\ treq'[s].pc = "idle")
              => LET r == treq[s].round
                     p == treq[s].profile
                     held == positions[r, p].token_balance
                     t == RMin(treq[s].amount, held)
                     pool == rounds[r].pool_sol_balance
                     gross == RMin(RDiv(RMul(t, getMultiplier(PoolOf(rounds[r]))),
                                        positions[r, p].entry_price), pool)
                 IN  positions[r, p].entry_price # NULL
                     => /\ rounds'[r].pool_sol_balance = RSub(pool, gross)
                        /\ balance'[p] = RAdd(balance[p], RSub(gross, RMul(gross, Rat(2, 100))))
                        /\ positions'[r, p].token_balance = RSub(held, t)
                        /\ Len(trades') = Len(trades) + 1]_vars

\* the requests in progress
InFlight == {t \in TradeIds : treq[t].pc # "idle"}

\* this step receives a trade request and rejects it before any await
RejectedAtAdmission == started' # started /\ InFlight' = InFlight

\* this step ends request t with a failure
RejectedInService(t) ==
    treq[t].pc # "idle" /\ treq'[t].pc = "idle" /\ treq'[t].result # "ok"

\* C21: a step that rejects a buy or a sell leaves every pool, position,
\* ledger balance and the trade log unchanged, and a trade request received
\* while the countdown between rounds is running is rejected at once.
C21_RejectedTradeChangesNothing ==
    [][/\ (RejectedAtAdmission \/ \E t \in TradeIds : RejectedInService(t))
            => <<rounds, positions, balance, trades>>' = <<rounds, positions, balance, trades>>
       /\ (started' # started /\ countdownSeconds > 0) => RejectedAtAdmission]_vars

\* C22: once stopRoundManager has run (the manager is not running), a step of
\* a tick still in flight, or of a countdown callback, schedules no timer,
\* begins no countdown and creates no round.
C22_NothingRestartsAfterStop ==
    [][(~isRunning /\ ~isRunning' /\ (tick' # tick \/ cdPending' # cdPending))
          => /\ checkInterval' = checkInterval
             /\ ~(countdownInterval' /\ ~countdownInterval)
             /\ countdownSeconds' <= countdownSeconds
             /\ Len(rounds') = Len(rounds)]_vars

\* the registered connections bound to wallet w
BoundTo(w) == {c \in DOMAIN clients : clients[c].walletAddress = w}

\* C23: at most one registered connection is bound to any wallet identity.
C23_OneConnectionPerWallet ==
    \A w \in Profiles : Cardinality(BoundTo(w)) <= 1

\* C24: a channel broadcast goes to exactly the registered connections that
\* are subscribed to the channel when it is sent and whose socket is open; a
\* connection that is not subscribed, is closed or is no longer registered
\* gets nothing from it.
C24_BroadcastReachesSubscribers ==
    [][(sent' # sent /\ sent'.type \in CHANNELS)
          => /\ \A c \in Conns :
                   c \in sent'.to
                     <=> (/\ c \in DOMAIN clients
                          /\ sent'.type \in clients[c].subscriptions
                          /\ readyState[c] = "OPEN")
             /\ clients' = clients]_vars

\* a round event reached its one subscriber while the other registered, open
\* connection, subscribed to another channel only, was left out
C24_Witness ==
    /\ sent = [type |-> "round", to |-> {1}]
    /\ 2 \in DOMAIN clients /\ readyState[2] = "OPEN"
    /\ clients[2].subscriptions = {"chat"}

\* C25: a heartbeat terminates and removes every registered connection whose
\* peer left the previous ping unanswered, and removes no connection whose
\* peer has no unanswered ping (it answered every ping, or was never pinged).
C25_HeartbeatEvictsSilentPeers ==
    [][Heartbeat =>
          \A c \in DOMAIN clients :
              /\ pinged[c] => (c \notin DOMAIN clients' /\ readyState'[c] = "CLOSED")
              /\ ~pinged[c] => (c \in DOMAIN clients' /\ readyState'[c] = readyState[c])]_vars

\* the last heartbeat pinged connection 2, which had no unanswered ping, and
\* connection 1, whose peer had left its ping unanswered, is terminated and
\* out of the registry
C25_Witness ==
    /\ sent = [type |-> "ping", to |-> {2}]
    /\ 2 \in DOMAIN clients /\ ~clients[2].isAlive /\ pinged[2]
    /\ clients[2].walletAddress = "p1"
    /\ 1 \notin DOMAIN clients /\ readyState[1] = "CLOSED" /\ pinged[1]

\* the frames the hub rejects before any await: unparsable data, an unknown
\* type, a subscribe with no valid channel, an identify with no
\* wallet_address, a chat before identify, an empty or over-long chat
RejectedFrame(c, frame) ==
    \/ ~frame.json
    \/ frame.type \notin {"subscribe", "unsubscribe", "identify", "chat", "ping"}
    \/ frame.type = "subscribe" /\ Range(frame.channels) \cap CHANNELS = {}
    \/ frame.type = "identify" /\ frame.wallet_address = ""
    \/ frame.type = "chat"
         /\ \/ c \notin DOMAIN clients
            \/ clients[c].walletAddress = ""
            \/ Trim(frame.message) = ""
            \/ TextLength(frame.message) > 500

\* C26: a rejected frame is answered with an ERROR frame to its sender (as
\* long as the sender's socket is open) and changes neither the registry nor
\* the stored chat messages, ledger, rounds, positions, trades or records.
C26_RejectedFrameGetsError ==
    [][\A c \in Conns :
          /\ \A frame \in Frames :
                (handleMessage(c, frame) /\ RejectedFrame(c, frame))
                    => /\ sent' = [type |-> "ERROR", to |-> {c}]
                       /\ wsreq' = wsreq
                       /\ <<clients, chatMessages, storeVars>>' = <<clients, chatMessages, storeVars>>
          /\ (wsreq[c].pc \in {"identify", "chat_profile"}
                 /\ wsreq[c].wallet_address \notin Profiles /\ wsreq'[c] # wsreq[c])
                => /\ readyState[c] = "OPEN" => sent' = [type |-> "ERROR", to |-> {c}]
                   /\ wsreq'[c] = IdleFrame
                   /\ <<clients, chatMessages, storeVars>>' = <<clients, chatMessages, storeVars>>]_vars

\* an identified, subscribed connection was last answered with an ERROR and
\* is bound and subscribed as before
C26_Witness ==
    \E c \in Conns :
        /\ sent = [type |-> "ERROR", to |-> {c}]
        /\ c \in DOMAIN clients
        /\ clients[c].walletAddress = "p1"
        /\ clients[c].subscriptions = {"round"}
        /\ wsreq[c] = IdleFrame
        /\ chatMessages = <<>>

\* the responses that report a deposit as not yet confirmed
NotYetConfirmed == {"Transaction not confirmed yet", "Transaction not found on chain yet"}

\* C27: a deposit confirmation never makes more than maxRetries chain lookups,
\* and a request that ended "not yet confirmed" because no lookup saw the
\* transaction has credited nothing and leaves exactly one pending record of
\* its signature.
C27_UnseenDepositLeavesOnePending ==
    \A d \in DepIds :
        /\ dreq[d].attempt <= maxRetries
        /\ (dreq[d].pc = "done" /\ dreq[d].response.message \in NotYetConfirmed)
              => /\ ~dreq[d].response.success
                 /\ ~dreq[d].credited
                 /\ Cardinality({i \in recordsOf(dreq[d].sig) :
                                     history[i].status = "pending"}) = 1

\* C28: for the pool of every round reached by trading and for the pools
\* holding nothing, the minimum trade or a trade amount, a pool with
\* solBalance >= 0 has multiplier >= 1, and of any two pools the one with
\* the larger solBalance has the strictly larger multiplier.
C28_MultiplierAtLeastOneAndMonotone ==
    LET balances == {PoolOfRound(r) : r \in 1..Len(rounds)}
                        \cup {Zero, MIN_TRADE} \cup TradeAmounts
        pool(b) == [sol_balance |-> b, token_supply |-> INITIAL_TOKEN_SUPPLY]
    IN  \A a \in balances :
            /\ RLe(Zero, a) => RLe(Rat(1, 1), getMultiplier(pool(a)))
            /\ \A b \in balances :
                   RLt(a, b) => RLt(getMultiplier(pool(a)), getMultiplier(pool(b)))

\* two rounds whose pools hold different positive amounts, the fuller one
\* priced higher
C28_Witness ==
    /\ Len(rounds) = 2
    /\ RLt(Zero, PoolOfRound(1))
    /\ RLt(PoolOfRound(1), PoolOfRound(2))
    /\ RLt(rounds[1].current_price, rounds[2].current_price)

\* C29: every step that inserts a round (the manager's tick, the countdown
\* callback, GET /round, forceNewRound) inserts exactly one, with status
\* active, pool solBalance 0 and multiplier 1, not ended, with no position
\* of any participant, and leaves the rows of the other rounds as they were.
C29_RoundStartsEmpty ==
    [][Len(rounds') > Len(rounds)
          => /\ Len(rounds') = Len(rounds) + 1
             /\ \A r \in 1..Len(rounds) : rounds'[r] = rounds[r]
             /\ LET round == rounds'[Len(rounds')]
                IN  /\ round.status = "active"
                    /\ round.pool_sol_balance = Zero
                    /\ round.current_price = Rat(1, 1)
                    /\ round.ended_at = 0
                    /\ \A p \in Profiles : positions'[Len(rounds'), p] = NoPosition]_vars

\* a second round was inserted after the first was settled
C29_Witness ==
    /\ Len(rounds) = 2
    /\ rounds[1].status = "completed"
    /\ rounds[2] = [status |-> "active", pool_sol_balance |-> Zero,
                     pool_token_supply |-> INITIAL_TOKEN_SUPPLY,
                     current_price |-> Rat(1, 1), ended_at |-> 0]

\* C30: the commit of a buy sets the position's entry multiplier to the
\* midpoint of the round's multiplier before and after the commit when the
\* position held no tokens, and otherwise to the average of its previous
\* entry and that midpoint, weighted by the tokens held and the tokens bought.
C30_EntryIsWeightedAverage ==
    [][\A t \in TradeIds :
          (treq[t].pc = "buy_commit" /\ treq'[t].pc = "idle")
              => LET r == treq[t].round
                     p == treq[t].profile
                     old == positions[r, p]
                     newTokens == RSub(positions'[r, p].token_balance, old.token_balance)
                     tradeEntry == RDiv(RAdd(getMultiplier(PoolOf(rounds[r])),
                                             getMultiplier(PoolOf(rounds'[r]))), Rat(2, 1))
                 IN  positions'[r, p].entry_price =
                        IF RLt(Zero, old.token_balance) /\ old.entry_price # NULL
                        THEN RDiv(RAdd(RMul(old.token_balance, old.entry_price),
                                       RMul(newTokens, tradeEntry)),
                                  RAdd(old.token_balance, newTokens))
                        ELSE tradeEntry]_vars

\* the step of tick i that broadcasts ROUND_ENDED: endRound has returned,
\* after its update or at once for a round it read as completed
RoundEndedBroadcast(i) ==
    \/ tick[i].pc = "end_update" /\ tick'[i].pc # "end_update"
    \/ tick[i].pc = "end" /\ rounds[tick[i].round].status = "completed" /\ tick'[i] # tick[i]

\* C31: ROUND_ENDED is broadcast for a round once, by the step that settles
\* it (the round was active until then), with the forfeitures that
\* settlement computed from the holders of the round; no FORFEITURE
\* notification of a round comes before its ROUND_ENDED, and no COUNTDOWN
\* event comes while a ROUND_ENDED or a FORFEITURE notification is due.
C31_RoundEndedOnceThenForfeitures ==
    [][/\ \A i \in TickIds :
            /\ RoundEndedBroadcast(i)
                  => /\ rounds[tick[i].round].status = "active"
                     /\ rounds'[tick[i].round].status = "completed"
                     /\ \A j \in TickIds \ {i} :
                            tick[j].round = tick[i].round => tick[j].pc # "notify"
            /\ (tick[i].pc = "notify" /\ tick'[i] # tick[i])
                  => rounds[tick[i].round].status = "completed"
       /\ countdownSeconds' = countdownSeconds - 1
            => \A i \in TickIds : tick[i].pc \notin {"end", "end_update", "notify"}]_vars

\* C32: the countdown counter only changes by being set to COUNTDOWN_DURATION
\* when no countdown is in progress or by a timer taking one off a positive
\* value (the COUNTDOWN events run COUNTDOWN_DURATION-1, ..., 0); once a round
\* has been settled a round is created only by the countdown callback that
\* reached zero, one per countdown, while no round is active. The steps of
\* forceNewRound, which ends the countdown and creates a round at once, are
\* left out.
C32_CountdownThenOneRound ==
    [][/\ countdownSeconds' # countdownSeconds
            => \/ force' # force
               \/ countdownSeconds = 0 /\ countdownSeconds' = COUNTDOWN_DURATION
               \/ countdownSeconds > 0 /\ countdownSeconds' = countdownSeconds - 1
       /\ cdPending' <= 1
       /\ (Len(rounds') > Len(rounds) /\ force' = force
              /\ \E r \in 1..Len(rounds) : rounds[r].status = "completed")
            => /\ cdPending' = cdPending - 1
               /\ countdownSeconds = 0
               /\ ActiveRounds = {}]_vars

\* C33: with the manager running, its timers firing and its storage calls
\* returning, a state with no active round (and room for another round in
\* the model) leads to a state with an active round.
C33_RoundsRecur ==
    (isRunning /\ ActiveRounds = {} /\ Len(rounds) < MaxRounds) ~> (ActiveRounds # {})

\* a second round is active after the first was settled and its countdown
\* ran out
C33_Witness ==
    /\ isRunning
    /\ Len(rounds) = 2
    /\ rounds[1].status = "completed"
    /\ rounds[2].status = "active"
    /\ countdownSeconds = 0
    /\ cdPending = 0
    /\ ~countdownInterval /\ ~leakedCountdown

\* C34: a sell whose position lookup finds tokens but no entry multiplier ends
\* there, rejected, with nothing changed; no sell commits on a position read
\* without an entry multiplier.
C34_SellNeedsEntry ==
    [][\A t \in TradeIds :
          /\ (treq[t].pc = "sell_position" /\ treq'[t] # treq[t]
                 /\ positions[treq[t].round, treq[t].profile].entry_price = NULL)
                => /\ treq'[t].pc = "idle"
                   /\ treq'[t].result # "ok"
                   /\ <<rounds, positions, balance, trades>>' = <<rounds, positions, balance, trades>>
          /\ (treq[t].pc = "sell_commit" /\ treq'[t] # treq[t])
                => treq[t].position.entry_price # NULL]_vars

\* tokens of the first i trade records that are trades of the given type by
\* participant p in round r
RECURSIVE TokensTraded(_, _, _, _)
TokensTraded(r, p, type, i) ==
    IF i = 0 THEN Zero
    ELSE LET rest == TokensTraded(r, p, type, i - 1)
         IN  IF trades[i].round_id = r /\ trades[i].profile_id = p
                /\ trades[i].trade_type = type
             THEN RAdd(rest, trades[i].token_amount) ELSE rest

\* C35: no position has a negative token balance, and the tokens a
\* participant sold in a round never exceed the tokens they bought in it.
C35_NeverSellMoreThanHeld ==
    \A r \in RoundIds, p \in Profiles :
        /\ RLe(Zero, positions[r, p].token_balance)
        /\ RLe(TokensTraded(r, p, "sell", Len(trades)), TokensTraded(r, p, "buy", Len(trades)))

\* C36: in the locked withdrawal handler the ledger is credited back only
\* when the external transfer did not succeed: a request whose transfer
\* returned a signature keeps its amount debited, also when the update of
\* its record to confirmed failed.
C36_RefundOnlyAfterFailedTransfer ==
    \A w \in WdIds :
        (wdRouter = "locked" /\ wreq[w].transfer = "sent") => wreq[w].held = wreq[w].amount

\* the records of a signature that are pending
PendingOf(sig) == {i \in recordsOf(sig) : history[i].status = "pending"}

\* C37: a confirmation request that finds the pending record of its
\* signature, made when the chain already shows the transaction and all the
\* checks pass, goes on to verify and credit the deposit: it does not end,
\* nor turn to the balance refetch, without crediting.
C37_PendingDepositCreditedLater ==
    [][\A d \in DepIds :
          (/\ dreq[d].pc = "existing"
           /\ PendingOf(dreq[d].sig) # {}
           /\ DepositChecksHold(dreq[d].wallet, dreq[d].sig, dreq[d].amount)
           /\ dreq'[d] # dreq[d])
              => dreq'[d].pc = "lookup"]_vars

\* C38: whenever the countdown counter is positive, a countdown timer that
\* will decrement it is scheduled, whatever startRoundManager,
\* stopRoundManager and forceNewRound calls were made.
C38_PositiveCountdownHasTimer ==
    countdownSeconds > 0 => (countdownInterval \/ leakedCountdown)

\* getRoundFees: the sum of fee_amount over the first i trade rows, for round r
RECURSIVE getRoundFees(_, _)
getRoundFees(r, i) ==
    IF i = 0 THEN Zero
    ELSE RAdd(getRoundFees(r, i - 1),
              IF trades[i].round_id = r THEN trades[i].fee_amount ELSE Zero)

\* what the first i trade rows moved on the ledger for round r: a buy debits
\* its sol_amount, a sell credits its sol_amount less its fee
RECURSIVE LedgerNet(_, _)
LedgerNet(r, i) ==
    IF i = 0 THEN Zero
    ELSE LET t == trades[i]
         IN  RAdd(LedgerNet(r, i - 1),
                  IF t.round_id # r THEN Zero
                  ELSE IF t.trade_type = "buy" THEN t.sol_amount
                  ELSE RSub(t.fee_amount, t.sol_amount))

\* C39: trading conserves SOL: whenever no trade is in flight, for every
\* round the ledger amount debited by its buys less the ledger amount
\* credited by its sells equals the pool solBalance of the round plus the
\* fees of the round's trade rows.
C39_TradingConservesSol ==
    (InFlight = {}) =>
        \A r \in 1..Len(rounds) :
            LedgerNet(r, Len(trades)) = RAdd(PoolOfRound(r), getRoundFees(r, Len(trades)))

====
